---------------------------- MODULE Spec2Model ----------------------------
(***************************************************************************)
(* SimpleVideoCutTool: the Region Model (core/cut_manager.py, CutManager)  *)
(* and the Encoding Session Controller (core/video_processor.py,           *)
(* VideoProcessor and EncodingWorker) as state machines, with the command  *)
(* builders and parsers of utils/ffmpeg_wrapper.py and the metadata probe  *)
(* of core/video_info.py.                                                  *)
(*                                                                         *)
(* Spec        the Region Model driven through its public methods          *)
(* SpecUndo    the Region Model with a record of the current run of        *)
(*             snapshotting operations and of the undo() calls after it    *)
(* SpecHistory snapshots taken up to the maximum of the history and beyond *)
(* SpecCap     regions created and removed until the history is full,      *)
(*             then undo() and redo()                                      *)
(* SpecColor   regions created until their colours come round again       *)
(* SpecMerge   regions apart, touching, overlapping and nested, merged     *)
(* SpecEnc     one VideoProcessor, its worker threads and the child        *)
(*             process                                                     *)
(* SpecEncFair SpecEnc with the scheduling of the threads, of the event    *)
(*             loop and of the child process                               *)
(* SpecCmd     the command builders and encode() applied to segment lists  *)
(* SpecParse   the progress lines of the encoder read for their position   *)
(* SpecProbe   VideoInfo.probe applied to files and probe outputs          *)
(* SpecDetect  detect_available_encoder run on machines that list, run or  *)
(*             fail each hardware encoder                                  *)
(***************************************************************************)
EXTENDS Integers, Sequences, FiniteSets, TLC

\* ------------------------------------------------------------------ bounds

\* Marker positions are drawn from the grid -Step, 0, Step, ..., (MaxPos+1)*Step.
Step == 50
MaxPos == 3
\* set_marker_b is not called once the list holds MaxRegions regions.
MaxRegions == 3
\* No snapshot is taken once the history cursor has reached MaxSnapshots - 1.
MaxSnapshots == 3
\* set_marker_b is not called once _color_index has reached MaxColorIndex.
MaxColorIndex == 3

\* encode() is not called once MaxSessions workers have been created.
MaxSessions == 2
\* A worker reads at most MaxLines lines of its child's output.
MaxLines == 1

\* ------------------------------------------------------- program constants

\* Minimal duration of a region, in ms.
MinRegionMs == 100
\* CutManager._max_history
max_history == 50
\* len(CutManager.REGION_COLORS)
NumColors == 6

\* An Optional[int]: None, or Some(x) holding x.
None == <<>>
Some(x) == <<x>>
ValueOf(o) == o[1]

Positions == {k * Step : k \in -1 .. (MaxPos + 1)}
Durations == {(MaxPos - 1) * Step, MaxPos * Step}
Indices == -1 .. (MaxRegions - 1)

Min(a, b) == IF a <= b THEN a ELSE b
Max(a, b) == IF a >= b THEN a ELSE b

\* ------------------------------------------------------------------- state

VARIABLES
    regions,            \* CutManager._regions: sequence of CutRegion
    pending_marker_a,   \* CutManager._pending_marker_a: None or a position
    video_duration_ms,  \* CutManager._video_duration_ms
    color_index,        \* CutManager._color_index
    history,            \* CutManager._history: sequence of region lists
    history_index,      \* CutManager._history_index (0-based, -1 when empty)
    log,                \* the last call: method, return value, whether it took a snapshot
    streak,             \* SpecUndo: region lists before each operation of the current run
    undos,              \* SpecUndo: undo() calls made since the end of that run
    undone,             \* SpecUndo: the list the last call replaced, if it was an undo() done
    worker,             \* VideoProcessor._worker: 0 (None) or the worker's number
    is_encoding,        \* VideoProcessor._is_encoding
    sessions,           \* the EncodingWorker objects created so far, by number
    next_id,            \* how many EncodingWorker objects encode() has created
    events,             \* queued signal deliveries waiting in the main thread's event loop
    main,               \* the main thread: idle, or inside cancel()'s _terminate_process
    enc_log,            \* the last VideoProcessor call and its return value
    built,              \* the last command-builder call: its arguments and its result
    parsed,             \* the last progress line handled: the line and the position it gave
    probed              \* the last VideoInfo.probe call: what it met and how it ended

regionVars == <<regions, pending_marker_a, video_duration_ms, color_index,
                history, history_index>>
undoVars == <<streak, undos, undone>>
encVars == <<worker, is_encoding, sessions, next_id, events, main, enc_log>>
cmdVars == <<built, parsed, probed>>

\* ------------------------------------------------------------- CutRegion

CutRegion(s, e, c) == [start_ms |-> s, end_ms |-> e, color |-> c]

\* CutRegion.contains
contains(r, position_ms) == r.start_ms <= position_ms /\ position_ms <= r.end_ms

\* CutRegion.overlaps
overlaps(r, other) == ~(r.end_ms <= other.start_ms \/ r.start_ms >= other.end_ms)

\* x / 1000.0 as <<whole seconds, remaining milliseconds>>
Seconds(ms) == <<ms \div 1000, ms % 1000>>

\* A comparison that also holds for equal values.
SecAtMost(a, b) == a[1] < b[1] \/ (a[1] = b[1] /\ a[2] <= b[2])

\* Comparison of two such values (current_pos < start_sec).
SecLess(a, b) == a[1] < b[1] \/ (a[1] = b[1] /\ a[2] < b[2])

\* CutRegion.as_tuple
as_tuple(r) == <<Seconds(r.start_ms), Seconds(r.end_ms)>>

\* ------------------------------------------------------------ list helpers

Front(s) == SubSeq(s, 1, Len(s) - 1)
Last(s) == s[Len(s)]
RemoveAt(s, i) == SubSeq(s, 1, i - 1) \o SubSeq(s, i + 1, Len(s))

\* r placed after every element whose start_ms is not greater than its own.
RECURSIVE InsertByStart(_, _)
InsertByStart(r, s) ==
    IF s = <<>> THEN <<r>>
    ELSE IF Last(s).start_ms <= r.start_ms THEN Append(s, r)
    ELSE Append(InsertByStart(r, Front(s)), Last(s))

RECURSIVE StableSort(_)
StableSort(s) ==
    IF s = <<>> THEN <<>> ELSE InsertByStart(Last(s), StableSort(Front(s)))

\* A list left in insertion order, as it would be without the sort.
Unsorted(s) == s

\* self._regions.sort(key=lambda r: r.start_ms): a stable sort by start_ms
SortByStart(s) == StableSort(s)

\* ------------------------------------------------------ segment derivation

\* _calculate_inverse_segments, the loop from region i on with cursor current_pos
RECURSIVE InverseWalk(_, _, _, _)
InverseWalk(regs, i, current_pos, segments) ==
    IF i > Len(regs) THEN [current_pos |-> current_pos, segments |-> segments]
    ELSE LET start_sec == Seconds(regs[i].start_ms)
         IN  InverseWalk(regs, i + 1, Seconds(regs[i].end_ms),
                         IF SecLess(current_pos, start_sec)
                         THEN Append(segments, <<current_pos, start_sec>>)
                         ELSE segments)

\* _calculate_inverse_segments
CalculateInverseSegments(regs, duration_ms) ==
    IF regs = <<>> THEN << <<Seconds(0), Seconds(duration_ms)>> >>
    ELSE LET w == InverseWalk(regs, 1, Seconds(0), <<>>)
             end_sec == Seconds(duration_ms)
         IN  IF SecLess(w.current_pos, end_sec)
             THEN Append(w.segments, <<w.current_pos, end_sec>>)
             ELSE w.segments

\* get_final_segments in keep mode, regions present
KeepSegments(regs) == [i \in 1 .. Len(regs) |-> as_tuple(regs[i])]

\* get_final_segments
GetFinalSegments(regs, duration_ms, keep_mode) ==
    IF regs = <<>>
    THEN IF duration_ms > 0 THEN << <<Seconds(0), Seconds(duration_ms)>> >> ELSE <<>>
    ELSE IF keep_mode THEN KeepSegments(regs)
    ELSE CalculateInverseSegments(regs, duration_ms)

\* has_overlapping_regions
HasOverlappingRegions(regs) ==
    \E i \in 1 .. Len(regs) : \E j \in (i + 1) .. Len(regs) : overlaps(regs[i], regs[j])

\* A merged region that ends where the later region ends.
EndOfLater(current, region) == region.end_ms

\* end_ms=max(current.end_ms, region.end_ms)
MergedEnd(current, region) == Max(current.end_ms, region.end_ms)

\* merge_overlapping_regions, the sweep over the sorted list
RECURSIVE MergeSweep(_, _, _)
MergeSweep(merged, current, rest) ==
    IF rest = <<>> THEN Append(merged, current)
    ELSE LET region == Head(rest)
         IN  IF overlaps(current, region) \/ current.end_ms >= region.start_ms
             THEN MergeSweep(merged,
                             CutRegion(current.start_ms,
                                       MergedEnd(current, region),
                                       current.color),
                             Tail(rest))
             ELSE MergeSweep(Append(merged, current), region, Tail(rest))

\* A merge that joins a region with its successor only, carrying no
\* accumulator on to the regions after it.
RECURSIVE PairSweep(_)
PairSweep(s) ==
    IF Len(s) < 2 THEN s
    ELSE IF overlaps(s[1], s[2]) \/ s[1].end_ms >= s[2].start_ms
    THEN <<CutRegion(s[1].start_ms, Max(s[1].end_ms, s[2].end_ms), s[1].color)>>
         \o PairSweep(SubSeq(s, 3, Len(s)))
    ELSE <<s[1]>> \o PairSweep(Tail(s))
MergedPairwise(regs) == PairSweep(StableSort(regs))

\* merge_overlapping_regions: the list it leaves (2 or more regions)
MergedRegions(regs) ==
    LET sorted == SortByStart(regs)
    IN  MergeSweep(<<>>, Head(sorted), Tail(sorted))

\* merge_overlapping_regions: the list it leaves, whatever the list it finds
MergeResult(regs) == IF Len(regs) < 2 THEN regs ELSE MergedRegions(regs)

\* ----------------------------------------------------------------- history

\* _save_history, first step: drop the snapshots after the cursor
TruncateFuture(h, idx) ==
    IF idx < Len(h) - 1 THEN SubSeq(h, 1, idx + 1) ELSE h

\* A history that appends and advances the cursor by one without truncating.
SaveHistoryKeepingFuture(h, idx, regs) ==
    [history |-> Append(h, regs), history_index |-> idx + 1]

\* A history that truncates and appends but is never trimmed to the maximum.
SaveHistoryUncapped(h, idx, regs) ==
    LET h2 == Append(TruncateFuture(h, idx), regs)
    IN  [history |-> h2, history_index |-> Len(h2) - 1]

\* A history trimmed to its oldest max_history snapshots.
SaveHistoryKeepingOldest(h, idx, regs) ==
    LET h2 == Append(TruncateFuture(h, idx), regs)
        h3 == IF Len(h2) > max_history THEN SubSeq(h2, 1, max_history) ELSE h2
    IN  [history |-> h3, history_index |-> Len(h3) - 1]

\* _save_history: the history and cursor after the call
SaveHistory(h, idx, regs) ==
    LET h2 == Append(TruncateFuture(h, idx), regs)
        h3 == IF Len(h2) > max_history
              THEN SubSeq(h2, Len(h2) - max_history + 1, Len(h2))
              ELSE h2
    IN  [history |-> h3, history_index |-> Len(h3) - 1]

can_undo == history_index > 0
can_redo == history_index < Len(history) - 1

\* The bound Spec and SpecUndo put on snapshots: a call that takes one is
\* made only below it.
MaySnapshot == history_index + 1 < MaxSnapshots

\* The bounds the specifications put on regions: set_marker_b is made only
\* where it leaves at most MaxRegions regions and a colour counter of at most
\* MaxColorIndex.
FewRegions == Len(regions') <= MaxRegions /\ color_index' <= MaxColorIndex

\* The record of a call: the method, its return value (TRUE for a method that
\* returns nothing), whether it called _save_history, whether can_redo() held
\* when it was called and whether the history was then at its maximum, the
\* position given to set_marker_b, the mode given to and the list returned by
\* get_final_segments, and the signals the call emitted, in order.
LoggedCall(op, ok, snap, pos, keep, segs) ==
    [op |-> op, ok |-> ok, snap |-> snap, had_redo |-> can_redo,
     full |-> Len(history) = max_history,
     pos |-> pos, keep |-> keep, segs |-> segs, emitted |-> <<>>, seen |-> <<>>]

Logged(op, ok, snap) == LoggedCall(op, ok, snap, 0, FALSE, <<>>)

\* The record of a call that emitted signals.
Emitting(call, signals) == [call EXCEPT !.emitted = signals]
\* self.marker_a_cleared.emit() then self.regions_changed.emit()
ClearedAndChanged == <<"marker_a_cleared", "regions_changed">>
\* self.regions_changed.emit()
Changed == <<"regions_changed">>

\* The signals of a call with what a listener called at each emit finds in
\* the object.  A method is followed statement by statement, in the order of
\* its source: Do(what, arg) is one statement, Object the fields it works on.
Object(regs, marker, dur, color, h, idx) ==
    [regions |-> regs, pending_marker_a |-> marker, video_duration_ms |-> dur,
     color_index |-> color, history |-> h, history_index |-> idx]
Do(what, arg) == [what |-> what, arg |-> arg]
Emit(signal) == Do("emit", signal)

\* One statement carried out on the object o.
Carry(o, s) ==
    CASE s.what = "save_history" ->
           LET saved == SaveHistory(o.history, o.history_index, o.regions)
           IN  [o EXCEPT !.history = saved.history,
                         !.history_index = saved.history_index]
      [] s.what = "duration" -> [o EXCEPT !.video_duration_ms = s.arg]
      [] s.what = "marker" -> [o EXCEPT !.pending_marker_a = s.arg]
      [] s.what = "color" -> [o EXCEPT !.color_index = s.arg]
      [] s.what = "cursor" -> [o EXCEPT !.history_index = s.arg]
      [] s.what = "regions" -> [o EXCEPT !.regions = s.arg]
      [] s.what = "append" -> [o EXCEPT !.regions = Append(@, s.arg)]
      [] s.what = "delete" -> [o EXCEPT !.regions = RemoveAt(@, s.arg + 1)]
      [] s.what = "replace" ->
           [o EXCEPT !.regions = [@ EXCEPT ![s.arg[1] + 1] = s.arg[2]]]
      [] s.what = "sort" -> [o EXCEPT !.regions = SortByStart(@)]
      [] s.what = "sweep" ->
           [o EXCEPT !.regions = MergeSweep(<<>>, Head(@), Tail(@))]
      [] OTHER -> o

\* The statements of a body carried out in order: the object at the end, and
\* for each emit the signal and the object as it is at that moment.
RECURSIVE Run(_, _, _)
Run(body, o, seen) ==
    IF body = <<>> THEN [object |-> o, seen |-> seen]
    ELSE LET s == Head(body)
         IN  IF s.what = "emit"
             THEN Run(Tail(body), o, Append(seen, [signal |-> s.arg, object |-> o]))
             ELSE Run(Tail(body), Carry(o, s), seen)

\* clear_all
clear_all_body(o) ==
    (IF o.regions # <<>> \/ o.pending_marker_a # None
     THEN <<Do("save_history", 0)>> ELSE <<>>)
    \o <<Do("regions", <<>>), Do("marker", None), Do("color", 0),
         Emit("marker_a_cleared"), Emit("regions_changed")>>

\* set_video_duration
set_video_duration_body(o, duration_ms) ==
    <<Do("duration", duration_ms)>> \o clear_all_body(o)

\* set_marker_a, the position being valid
set_marker_a_body(position_ms) ==
    <<Do("marker", Some(position_ms)), Emit("marker_a_set")>>

\* A set_marker_b that notifies as soon as the region is in the list.
set_marker_b_notifying_early(o, region) ==
    <<Do("color", o.color_index + 1), Do("save_history", 0), Do("append", region),
      Emit("marker_a_cleared"), Emit("regions_changed"),
      Do("marker", None), Do("sort", 0)>>

\* set_marker_b, from the creation of the region on
set_marker_b_body(o, region) ==
    <<Do("color", o.color_index + 1), Do("save_history", 0), Do("append", region),
      Do("marker", None), Do("sort", 0),
      Emit("marker_a_cleared"), Emit("regions_changed")>>

\* cancel_marker_a
cancel_marker_a_body(o) ==
    IF o.pending_marker_a # None
    THEN <<Do("marker", None), Emit("marker_a_cleared")>>
    ELSE <<>>

\* remove_region, the index being valid
remove_region_body(index) ==
    <<Do("save_history", 0), Do("delete", index), Emit("regions_changed")>>

\* edit_region, from self._save_history() on
edit_region_body(index, region) ==
    <<Do("save_history", 0), Do("replace", <<index, region>>), Do("sort", 0),
      Emit("regions_changed")>>

\* merge_overlapping_regions on two or more regions
merge_overlapping_regions_body ==
    <<Do("save_history", 0), Do("sort", 0), Do("sweep", 0), Emit("regions_changed")>>

\* undo and redo, from the move of the cursor on: self._history_index -= 1
\* (or += 1), then _restore_from_history
restore_body(o, idx) ==
    <<Do("cursor", idx)>>
    \o (IF 0 <= idx /\ idx < Len(o.history)
        THEN <<Do("regions", o.history[idx + 1]), Do("marker", None),
               Emit("marker_a_cleared"), Emit("regions_changed")>>
        ELSE <<>>)

\* The object as the call finds it.
Now ==
    Object(regions, pending_marker_a, video_duration_ms, color_index,
           history, history_index)

\* The record of a call whose statements were those of body.
Following(call, body) == [call EXCEPT !.seen = Run(body, Now, <<>>).seen]

\* ------------------------------------------------- encoding session data

Workers == 1 .. MaxSessions

\* Exit codes a child process ends with.
ExitCodes == {0, 1}
\* Output positions (ms) a progress line carries, and -1 for a line without '='.
LineTimes == {-1, 29, 250}
\* total_duration_ms values encode() hands to the worker.
Totals == {0, 100}

\* The terminal notification finished_encoding(success, message); kind names
\* the message: "cancelled" (Encodage annule), "success", "failed" (FFmpeg a
\* echoue (code N)), "not_found" (FFmpeg non trouve), "unexpected".
Terminal(kind, success, code) == [kind |-> kind, success |-> success, code |-> code]
NoTerminal == Terminal("none", FALSE, 0)

\* A signal emitted by a worker thread, queued for the main thread:
\* progress(val) emitted at source line `at`, finished_encoding(term), or
\* QThread.finished.
Event(sig, w, val, at, term) ==
    [sig |-> sig, w |-> w, val |-> val, at |-> at, term |-> term]
ProgressEvent(w, val, at) == Event("progress", w, val, at, NoTerminal)
FinishedEncodingEvent(w, term) == Event("finished_encoding", w, 0, 0, term)
ThreadFinishedEvent(w) == Event("finished", w, 0, 0, NoTerminal)

\* An EncodingWorker: where its thread is in run(), _cancelled, the child
\* process (_process: none before Popen), its return code and the calls the
\* last _terminate_process made on it, the lines read
\* and current_time_ms (the loop's own, 0 outside it), _total_duration_ms, the
\* terminal notification it
\* emitted and the value _cancelled had then, and what the listeners of the
\* VideoProcessor were told about it (whether encoding_finished reached them,
\* and is_encoding as they found it then).
NewWorker(pc, total) ==
    [pc |-> pc, cancelled |-> FALSE, process |-> "none", returncode |-> 0,
     lines |-> 0, current_time_ms |-> 0, total_duration_ms |-> total,
     terminal |-> NoTerminal, cancel_seen |-> FALSE,
     started |-> FALSE, delivered |-> FALSE, told_encoding |-> FALSE,
     handle_calls |-> <<>>]

\* A worker whose thread has ended and whose last signal has been handled:
\* nothing reads the object any more, and the model forgets its fields.
GoneWorker ==
    [NewWorker("gone", 0) EXCEPT !.started = TRUE, !.delivered = TRUE]

EncInit ==
    /\ worker = 0
    /\ is_encoding = FALSE
    /\ sessions = [w \in Workers |-> NewWorker("unborn", 0)]
    /\ next_id = 0
    /\ events = <<>>
    /\ main = [pc |-> "idle", w |-> 0]
    /\ enc_log = [op |-> "init", ok |-> TRUE]

\* ------------------------------------------------------- command builder

\* Segments a builder is handed, as (start, end) in seconds, and how many.
MaxSegments == 3
SegmentChoices ==
    {<<Seconds(0), Seconds(100)>>, <<Seconds(100), Seconds(150)>>,
     <<Seconds(1000), Seconds(2500)>>}
SegmentLists == UNION {[1 .. n -> SegmentChoices] : n \in 0 .. MaxSegments}
\* separator_duration, in milliseconds (default 2.0 s)
SeparatorDurations == {1000, 2000}

\* A time in seconds, back in milliseconds.
Ms(sec) == sec[1] * 1000 + sec[2]

\* One argument of a command line: a literal text, a time in seconds, or the
\* value of -filter_complex (the list of the graph's parts, joined by ';').
Arg(s) == [text |-> s, value |-> <<>>, graph |-> <<>>]
TimeArg(sec) == [text |-> "seconds", value |-> sec, graph |-> <<>>]
FilterGraph(parts) == [text |-> "graph", value |-> <<>>, graph |-> parts]

\* A pad label of the graph: [v0], [a0], [sep0v], [sep0a], [outv], [outa].
Pad(name, i) == <<name, i>>

\* One part of the filter graph: its filter, the trimmed span (a trim), the
\* duration in ms (a separator), the input pads and the declared n/v/a (the
\* concat), and the pads it produces.
Part(filter, seg, dur, inputs, n, v, a, outs) ==
    [filter |-> filter, seg |-> seg, dur |-> dur, inputs |-> inputs,
     n |-> n, v |-> v, a |-> a, outs |-> outs]
\* [0:v]trim={start}:{end},setpts=PTS-STARTPTS[v{i}]
Trim(i, seg) == Part("trim", seg, 0, <<>>, 0, 0, 0, <<Pad("v", i)>>)
\* [0:a]atrim={start}:{end},asetpts=PTS-STARTPTS[a{i}]
ATrim(i, seg) == Part("atrim", seg, 0, <<>>, 0, 0, 0, <<Pad("a", i)>>)
\* color=c=...:s=...:d={separator_duration},format=yuv420p[sep{i}v]
ColorScreen(i, d) == Part("color", <<>>, d, <<>>, 0, 0, 0, <<Pad("sepv", i)>>)
\* aevalsrc=0:d={separator_duration}:s=48000[sep{i}a]
Silence(i, d) == Part("aevalsrc", <<>>, d, <<>>, 0, 0, 0, <<Pad("sepa", i)>>)
\* A concat that always declares an audio stream.
ConcatDeclaringAudio(inputs, n, a) ==
    [filter |-> "concat", seg |-> <<>>, dur |-> 0, inputs |-> inputs,
     n |-> n, v |-> 1, a |-> 1, outs |-> <<<<"outv", 0>>, <<"outa", 0>>>>]

\* {concat_inputs}concat=n={n}:v=1:a={a}[outv][outa]
Concat(inputs, n, a) ==
    Part("concat", <<>>, 0, inputs, n, 1, a,
         IF a = 1 THEN <<Pad("outv", 0), Pad("outa", 0)>> ELSE <<Pad("outv", 0)>>)

\* What a builder call gives: the ValueError, or the argument list.
RaisedValueError == [raised |-> TRUE, args |-> <<>>]
Command(args) == [raised |-> FALSE, args |-> args]

\* get_video_codec_args() for the software encoder (the fallback)
get_video_codec_args ==
    <<Arg("-c:v"), Arg("libx264"), Arg("-preset"), Arg("medium"),
      Arg("-crf"), Arg("18")>>

\* "-progress", "pipe:1", "-nostats", str(output_path)
OutputArgs == <<Arg("-progress"), Arg("pipe:1"), Arg("-nostats"), Arg("output")>>
\* "-c:a", "aac", "-b:a", AAC_BITRATE
AudioCodecArgs == <<Arg("-c:a"), Arg("aac"), Arg("-b:a"), Arg("192k")>>
\* str(ffmpeg), "-y", "-i", str(input_path)
InputArgs == <<Arg("ffmpeg"), Arg("-y"), Arg("-i"), Arg("input")>>

\* A double near a whole number of milliseconds: ms - short * 2^-47.  The
\* durations handled are of 32 ms and more, where doubles are 2^-47 apart or
\* more.
Float(ms, short) == [ms |-> ms, short |-> short]

\* (end - start) * 1000 in doubles.  Of the spans in SegmentChoices,
\* (0.15 - 0.1) * 1000 is 49.999999999999986 = 50 - 2 * 2^-47; the others
\* give the whole number.
SpanMs(segment) ==
    Float(Ms(segment[2]) - Ms(segment[1]),
          IF segment = <<Seconds(100), Seconds(150)>> THEN 2 ELSE 0)

\* "-ss", str(start), "-t", str(end - start); the duration is the double
\* end - start, held in milliseconds (it falls short of the whole number for
\* the same span as (end - start) * 1000 does)
SeekArgs(start, end) ==
    <<Arg("-ss"), TimeArg(start), Arg("-t"), TimeArg(SpanMs(<<start, end>>))>>

build_single_segment_command(start_seconds, end_seconds) ==
    Command(InputArgs \o SeekArgs(start_seconds, end_seconds)
            \o get_video_codec_args \o AudioCodecArgs \o OutputArgs)

\* A builder that takes every list, the empty one too.
NeverEmpty(segments) == FALSE

\* if not segments: raise ValueError(...)
EmptySegments(segments) == segments = <<>>

\* The loops over enumerate(segments): filter_parts and concat_inputs after
\* the segments from the i-th (1-based here, i - 1 in the labels) are added.
RECURSIVE TrimLoop(_, _, _, _)
TrimLoop(segments, has_audio, i, acc) ==
    IF i > Len(segments) THEN acc
    ELSE TrimLoop(segments, has_audio, i + 1,
            IF has_audio
            THEN [filter_parts |-> acc.filter_parts
                        \o <<Trim(i - 1, segments[i]), ATrim(i - 1, segments[i])>>,
                  concat_inputs |-> acc.concat_inputs
                        \o <<Pad("v", i - 1), Pad("a", i - 1)>>]
            ELSE [filter_parts |-> Append(acc.filter_parts, Trim(i - 1, segments[i])),
                  concat_inputs |-> Append(acc.concat_inputs, Pad("v", i - 1))])

EmptyGraph == [filter_parts |-> <<>>, concat_inputs |-> <<>>]

build_multi_segment_command(segments) ==
    IF EmptySegments(segments) THEN RaisedValueError
    ELSE IF Len(segments) = 1
    THEN build_single_segment_command(segments[1][1], segments[1][2])
    ELSE LET g == TrimLoop(segments, TRUE, 1, EmptyGraph)
             n_segments == Len(segments)
             filter_complex ==
                 Append(g.filter_parts, Concat(g.concat_inputs, n_segments, 1))
         IN  Command(InputArgs
                     \o <<Arg("-filter_complex"), FilterGraph(filter_complex),
                          Arg("-map"), Arg("[outv]"), Arg("-map"), Arg("[outa]")>>
                     \o get_video_codec_args \o AudioCodecArgs \o OutputArgs)

build_video_only_multi_segment_command(segments) ==
    IF EmptySegments(segments) THEN RaisedValueError
    ELSE IF Len(segments) = 1
    THEN Command(InputArgs \o SeekArgs(segments[1][1], segments[1][2])
                 \o get_video_codec_args \o <<Arg("-an")>> \o OutputArgs)
    ELSE LET g == TrimLoop(segments, FALSE, 1, EmptyGraph)
             n_segments == Len(segments)
             filter_complex ==
                 Append(g.filter_parts, Concat(g.concat_inputs, n_segments, 0))
         IN  Command(InputArgs
                     \o <<Arg("-filter_complex"), FilterGraph(filter_complex),
                          Arg("-map"), Arg("[outv]")>>
                     \o get_video_codec_args \o <<Arg("-an")>> \o OutputArgs)

\* A separator after every segment, the last one too.
SeparatorAfterEvery(i, n) == i < n

\* if i < len(segments) - 1: (i counted from 0)
SeparatorFollows(i, n) == i < n - 1

\* The loop of the builder with separators: after each segment but the last,
\* a colour screen (and its silence) follows the segment's trims.
RECURSIVE SeparatorLoop(_, _, _, _, _)
SeparatorLoop(segments, separator_duration, has_audio, i, acc) ==
    IF i > Len(segments) THEN acc
    ELSE LET trims ==
                 IF has_audio
                 THEN [filter_parts |-> acc.filter_parts
                             \o <<Trim(i - 1, segments[i]), ATrim(i - 1, segments[i])>>,
                       concat_inputs |-> acc.concat_inputs
                             \o <<Pad("v", i - 1), Pad("a", i - 1)>>]
                 ELSE [filter_parts |-> Append(acc.filter_parts, Trim(i - 1, segments[i])),
                       concat_inputs |-> Append(acc.concat_inputs, Pad("v", i - 1))]
             separated ==
                 IF SeparatorFollows(i - 1, Len(segments))
                 THEN IF has_audio
                      THEN [filter_parts |-> trims.filter_parts
                                  \o <<ColorScreen(i - 1, separator_duration),
                                       Silence(i - 1, separator_duration)>>,
                            concat_inputs |-> trims.concat_inputs
                                  \o <<Pad("sepv", i - 1), Pad("sepa", i - 1)>>]
                      ELSE [filter_parts |-> Append(trims.filter_parts,
                                                   ColorScreen(i - 1, separator_duration)),
                            concat_inputs |-> Append(trims.concat_inputs,
                                                    Pad("sepv", i - 1))]
                 ELSE trims
         IN  SeparatorLoop(segments, separator_duration, has_audio, i + 1, separated)

\* A count of concatenated elements that forgets the separators.
SegmentsOnly(n) == n

\* n_elements = len(segments) + (len(segments) - 1)
ElementCount(n) == n + (n - 1)

build_multi_segment_with_separators_command(segments, separator_duration, has_audio) ==
    IF EmptySegments(segments) THEN RaisedValueError
    ELSE IF Len(segments) = 1
    THEN IF has_audio
         THEN build_single_segment_command(segments[1][1], segments[1][2])
         ELSE build_video_only_multi_segment_command(segments)
    ELSE LET g == SeparatorLoop(segments, separator_duration, has_audio, 1, EmptyGraph)
             n_elements == ElementCount(Len(segments))
             filter_complex ==
                 Append(g.filter_parts,
                        Concat(g.concat_inputs, n_elements, IF has_audio THEN 1 ELSE 0))
         IN  Command(InputArgs
                     \o <<Arg("-filter_complex"), FilterGraph(filter_complex),
                          Arg("-map"), Arg("[outv]")>>
                     \o (IF has_audio THEN <<Arg("-map"), Arg("[outa]")>> ELSE <<>>)
                     \o get_video_codec_args
                     \o (IF has_audio THEN AudioCodecArgs ELSE <<Arg("-an")>>)
                     \o OutputArgs)

\* VideoProcessor.encode's choice of a builder (use_separators = enabled and
\* more than one segment)
EncodeCommand(segments, has_audio, separator_enabled, separator_duration) ==
    LET use_separators == separator_enabled /\ Len(segments) > 1
    IN  IF use_separators
        THEN build_multi_segment_with_separators_command(
                 segments, separator_duration, has_audio)
        ELSE IF has_audio
        THEN build_multi_segment_command(segments)
        ELSE build_video_only_multi_segment_command(segments)

\* sum(end - start for start, end in segments), in milliseconds
RECURSIVE SegmentDuration(_)
SegmentDuration(segments) ==
    IF segments = <<>> THEN 0
    ELSE (Ms(Head(segments)[2]) - Ms(Head(segments)[1])) + SegmentDuration(Tail(segments))

\* One separator counted for every segment.
SeparatorPerSegment(n) == n

\* separator_count = max(0, len(segments) - 1)
SeparatorCount(n) == Max(0, n - 1)

\* calculate_total_duration_with_separators, in milliseconds
calculate_total_duration_with_separators(segments, separator_duration) ==
    IF segments = <<>> THEN 0
    ELSE LET segment_duration == SegmentDuration(segments)
             separator_count == SeparatorCount(Len(segments))
         IN  segment_duration + (separator_count * separator_duration)

\* The distance between neighbouring doubles at the value ms - short * 2^-47,
\* in units of 2^-47: 1 below 64, 2 below 128, 4 below 256, ...
RECURSIVE Ulp(_, _, _, _)
Ulp(ms, short, unit, top) ==
    IF ms < top \/ (ms = top /\ short > 0) THEN unit
    ELSE Ulp(ms, short, 2 * unit, 2 * top)

\* x + y in doubles: the exact sum rounded to the nearest double, to the one
\* with the even significand when it lies half-way.
FloatAdd(x, y) ==
    LET ms == x.ms + y.ms
        short == x.short + y.short
        unit == Ulp(ms, short, 1, 64)
        q == short \div unit
        r == short % unit
        up == 2 * r > unit \/ (2 * r = unit /\ q % 2 = 1)
    IN  Float(ms, IF up THEN (q + 1) * unit ELSE q * unit)

\* sum((end - start) * 1000 for start, end in segments): from 0, left to right
RECURSIVE FloatSum(_, _)
FloatSum(segments, acc) ==
    IF segments = <<>> THEN acc
    ELSE FloatSum(Tail(segments), FloatAdd(acc, SpanMs(Head(segments))))

\* int(x) of a positive double: the whole part
IntOfFloat(x) == IF x.short > 0 THEN x.ms - 1 ELSE x.ms

\* VideoProcessor.encode: total_duration_ms.  With separators it is
\* int(calculate_total_duration_with_separators(...) * 1000), which in doubles
\* gives the whole number of milliseconds for every list of SegmentLists and
\* every duration of SeparatorDurations; without, the int() of the sum above.
EncodeTotal(segments, separator_enabled, separator_duration) ==
    LET use_separators == separator_enabled /\ Len(segments) > 1
    IN  IF use_separators
        THEN calculate_total_duration_with_separators(segments, separator_duration)
        ELSE IntOfFloat(FloatSum(segments, Float(0, 0)))

\* The record of a builder call: the builder, its arguments, its result; for
\* the duration function, the separator duration and the total in milliseconds.
BuilderCall(op, segments, has_audio, separators, result) ==
    [op |-> op, segments |-> segments, has_audio |-> has_audio,
     separators |-> separators, raised |-> result.raised, args |-> result.args,
     separator_duration |-> 0, total |-> 0]
NoBuild == BuilderCall("none", <<>>, FALSE, FALSE, Command(<<>>))

\* ----------------------------------------------------- progress line parsing

\* A piece of text handed to int(): a decimal number, or anything else.
Num(n) == [num |-> TRUE, n |-> n]
Bad == [num |-> FALSE, n |-> 0]

\* A whole number of microseconds n, held as <<n div 10^6, n mod 10^6>>, and
\* n // 1000 of such a number.
Micro(sec, us) == <<sec, us>>
FloorDiv1000(n) == n[1] * 1000 + n[2] \div 1000

\* The value of a progress line, by what the code looks at:
\*   digits   time_str.isdigit(), or "-" followed by digits
\*   clock    a text holding ":"; parts is split(":"), each part given as its
\*            own split(".")
\*   other    neither (such as N/A)
Digits(n) == [shape |-> "digits", n |-> n, parts |-> <<>>]
Clock(parts) == [shape |-> "clock", n |-> Micro(0, 0), parts |-> parts]
Other == [shape |-> "other", n |-> Micro(0, 0), parts |-> <<>>]

\* A line of the child's output after strip(): with a key and a value around
\* its first "=", without any "=", or empty.
KeyValue(key, value) == [has_eq |-> TRUE, key |-> key, value |-> value, blank |-> FALSE]
Plain == [has_eq |-> FALSE, key |-> "", value |-> Other, blank |-> FALSE]
Blank == [has_eq |-> FALSE, key |-> "", value |-> Other, blank |-> TRUE]

\* Output positions in microseconds: 0, below and at one millisecond, 29 ms,
\* 1.5 s, the last microsecond of a minute, and 1 h 02 min 03.004005 s.
InstantsUs ==
    {Micro(0, 0), Micro(0, 999), Micro(0, 1000), Micro(0, 29000), Micro(1, 500000),
     Micro(59, 999999), Micro(3723, 4005)}

\* What the encoder prints for an instant: out_time_us=U and
\* out_time=HH:MM:SS.ffffff.
FormatUs(t) == Digits(t)
FormatClock(t) ==
    Clock(<< <<Num(t[1] \div 3600)>>,
             <<Num((t[1] \div 60) % 60)>>,
             <<Num(t[1] % 60), Num(t[2])>> >>)

\* Values that are no instant: N/A, the count -1500, a clock text with two
\* parts, with letters for the minutes, with no fraction, with a "." in the
\* hours, and with letters for the fraction.
OddValues ==
    {Other, Digits(Micro(-1, 998500)),
     Clock(<< <<Num(1)>>, <<Num(2)>> >>),
     Clock(<< <<Num(0)>>, <<Bad>>, <<Num(1), Num(500000)>> >>),
     Clock(<< <<Num(0)>>, <<Num(1)>>, <<Num(2)>> >>),
     Clock(<< <<Num(0), Num(5)>>, <<Num(0)>>, <<Num(1), Num(0)>> >>),
     Clock(<< <<Num(0)>>, <<Num(0)>>, <<Num(1), Bad>> >>)}

LineValues == {FormatUs(t) : t \in InstantsUs} \cup {FormatClock(t) : t \in InstantsUs}
                  \cup OddValues
LineKeys == {"out_time_us", "out_time", "out_time_ms", "progress"}
ProgressLines == {Plain, Blank} \cup {KeyValue(k, v) : k \in LineKeys, v \in LineValues}
\* current_time_ms before a line is read
PositionsBefore == {0, 29}

\* An expression's outcome: a value, or the exception it raises.
Value(n) == [error |-> "none", n |-> n]
Raise(e) == [error |-> e, n |-> 0]

\* int(text) on one part of a text; a part with a "." in it is no integer
IntOf(part) ==
    IF Len(part) = 1 /\ part[1].num THEN Value(part[1].n) ELSE Raise("ValueError")

\* int(seconds_parts[k])
IntOfField(field) == IF field.num THEN Value(field.n) ELSE Raise("ValueError")

\* The first exception among outcomes in evaluation order, or none.
RECURSIVE FirstError(_)
FirstError(outcomes) ==
    IF outcomes = <<>> THEN "none"
    ELSE IF Head(outcomes).error # "none" THEN Head(outcomes).error
    ELSE FirstError(Tail(outcomes))

\* A handler catching ValueError alone.
CaughtValueOnly == {"ValueError"}

\* except (ValueError, IndexError):
Caught == {"ValueError", "IndexError"}

\* parse_time_to_ms: the body of the try block
ParseTimeBody(time_str) ==
    IF time_str.shape = "digits" THEN Value(FloorDiv1000(time_str.n))
    ELSE IF time_str.shape = "clock"
    THEN LET parts == time_str.parts
         IN  IF Len(parts) < 3
             THEN LET given == [i \in 1 .. Len(parts) |-> IntOf(parts[i])]
                      first == FirstError(given)
                  IN  Raise(IF first # "none" THEN first ELSE "IndexError")
             ELSE LET hours == IntOf(parts[1])
                      minutes == IntOf(parts[2])
                      seconds_parts == parts[3]
                      seconds == IntOfField(seconds_parts[1])
                      microseconds == IF Len(seconds_parts) > 1
                                      THEN IntOfField(seconds_parts[2])
                                      ELSE Value(0)
                      first == FirstError(<<hours, minutes, seconds, microseconds>>)
                  IN  IF first # "none" THEN Raise(first)
                      ELSE Value(hours.n * 3600000 + minutes.n * 60000
                                 + seconds.n * 1000 + microseconds.n \div 1000)
    ELSE Value(0)

\* parse_time_to_ms
parse_time_to_ms(time_str) ==
    LET body == ParseTimeBody(time_str)
    IN  IF body.error = "none" THEN body
        ELSE IF body.error \in Caught THEN Value(0)
        ELSE body

\* parse_progress_line: the key and value of the line, or nothing
parse_progress_line(line) == IF line.has_eq THEN {<<line.key, line.value>>} ELSE {}

\* EncodingWorker.run, "Extraire le temps actuel": current_time_ms after a line
ExtractTime(line, current_time_ms) ==
    LET parsed_line == parse_progress_line(line)
    IN  IF \E kv \in parsed_line : kv[1] = "out_time_us"
        THEN LET value == (CHOOSE kv \in parsed_line : kv[1] = "out_time_us")[2]
             IN  IF value.shape = "digits" THEN Value(FloorDiv1000(value.n))
                 ELSE Value(current_time_ms)
        ELSE IF \E kv \in parsed_line : kv[1] = "out_time"
        THEN parse_time_to_ms((CHOOSE kv \in parsed_line : kv[1] = "out_time")[2])
        ELSE Value(current_time_ms)

\* EncodingWorker.run, the rest of the iteration: the signals it emits, with
\* current_time_ms as the extraction left it: progress whenever the total and
\* the position are positive, then log_message for a line that is not empty
\* and holds no "="
IterationEmits(line, position, total_duration_ms) ==
    (IF total_duration_ms > 0 /\ position > 0 THEN <<"progress">> ELSE <<>>)
    \o (IF ~line.blank /\ ~line.has_eq THEN <<"log_message">> ELSE <<>>)

\* The record of a line handled: the line, current_time_ms before and after,
\* the exception that left the handling, if one did, and the signals the
\* iteration emitted.
Handled(op, line, before, outcome) ==
    [op |-> op, line |-> line, before |-> before,
     after |-> outcome.n, error |-> outcome.error, emitted |-> <<>>]
NoLine == Handled("none", Plain, 0, Value(0))

\* ------------------------------------------------------------ metadata probe

\* How many streams the probed file holds at most.
MaxStreams == 3
\* codec_type of a stream
CodecTypes == {"video", "audio", "data"}
StreamLists == UNION {[1 .. n -> CodecTypes] : n \in 0 .. MaxStreams}
\* subprocess.run on the probe command: it raises, or the probe process ends
\* with a code other than 0, or with 0
RunOutcomes == {"raises", "failed", "ok"}

\* What VideoInfo.probe meets: whether the file exists, how the probe process
\* went, whether its output is JSON, and the streams the JSON lists.
ProbeInput(exists, run, json, streams) ==
    [exists |-> exists, run |-> run, json |-> json, streams |-> streams]
ProbeInputs ==
    {ProbeInput(e, r, j, s) : e \in BOOLEAN, r \in RunOutcomes, j \in BOOLEAN,
                              s \in StreamLists}

\* The outcome of probe: an exception of some class with its message, or the
\* VideoMetadata (the number of the video stream read, and has_audio).
ProbeRaised(class, message) ==
    [raised |-> TRUE, class |-> class, message |-> message,
     video_stream |-> 0, has_audio |-> FALSE]
ProbeReturned(video_stream, has_audio) ==
    [raised |-> FALSE, class |-> "none", message |-> "",
     video_stream |-> video_stream, has_audio |-> has_audio]

\* The first stream of a codec type in the list, 0 (None) without one.
FirstStream(streams, codec_type) ==
    IF \E i \in 1 .. Len(streams) : streams[i] = codec_type
    THEN CHOOSE i \in 1 .. Len(streams) :
             /\ streams[i] = codec_type
             /\ \A j \in 1 .. i - 1 : streams[j] # codec_type
    ELSE 0

\* VideoInfo._parse_probe_data
parse_probe_data(streams) ==
    LET video_stream == FirstStream(streams, "video")
        audio_stream == FirstStream(streams, "audio")
    IN  IF video_stream = 0
        THEN ProbeRaised("ValueError", "Aucun flux video trouve dans le fichier")
        ELSE ProbeReturned(video_stream, audio_stream # 0)

\* VideoInfo.probe
probe(file) ==
    IF ~file.exists THEN ProbeRaised("FileNotFoundError", "Fichier non trouve")
    ELSE IF file.run = "raises"
    THEN ProbeRaised("RuntimeError", "Impossible d'analyser le fichier")
    ELSE IF file.run = "failed" THEN ProbeRaised("RuntimeError", "ffprobe a echoue")
    ELSE IF ~file.json
    THEN ProbeRaised("ValueError", "Format de sortie ffprobe invalide")
    ELSE parse_probe_data(file.streams)

\* The record of a probe: what it met and how it ended.
Probed(op, file, result) == [op |-> op, file |-> file, result |-> result]
NoProbe == Probed("none", ProbeInput(FALSE, "ok", FALSE, <<>>), ProbeReturned(0, FALSE))

\* ------------------------------------------------------------ encoder probe

\* encoders: the hardware encoders tried, in order, with their presets
encoders == <<<<"h264_nvenc", "p7">>, <<"h264_qsv", "veryslow">>, <<"h264_amf", "quality">>>>

\* What the two subprocess.run calls of one iteration meet: the listing
\* (ffmpeg -encoders) names the encoder or not, runs over its timeout, or
\* raises; the trial encode ends with code 0 or another, runs over its
\* timeout, or raises.
ListingOutcomes == {"listed", "unlisted", "timeout", "raises"}
TrialOutcomes == {"exit0", "exit1", "timeout", "raises"}
Machines == [1 .. Len(encoders) -> [listing : ListingOutcomes, trial : TrialOutcomes]]

\* A trial that counts whenever it ran to its end.
TrialRan(trial) == trial \in {"exit0", "exit1"}

\* if test.returncode == 0: (a trial that timed out or raised has left the
\* iteration through the except clause)
TrialPassed(trial) == trial = "exit0"

\* One iteration of the loop: "continue" (unlisted, or an exception caught by
\* except (subprocess.TimeoutExpired, Exception)), or the return
TryEncoder(tried) ==
    IF tried.listing \in {"timeout", "raises"} THEN "continue"
    ELSE IF tried.listing = "unlisted" THEN "continue"
    ELSE IF tried.trial \in {"timeout", "raises"} THEN "continue"
    ELSE IF TrialPassed(tried.trial) THEN "return"
    ELSE "continue"

\* detect_available_encoder: the loop from the i-th encoder on, and the
\* fallback ("libx264", "medium")
RECURSIVE DetectFrom(_, _)
DetectFrom(machine, i) ==
    IF i > Len(encoders) THEN <<"libx264", "medium">>
    ELSE IF TryEncoder(machine[i]) = "return" THEN encoders[i]
    ELSE DetectFrom(machine, i + 1)
detect_available_encoder(machine) == DetectFrom(machine, 1)

\* ------------------------------------------------------------- operations

\* A start taken from marker A whatever the order of the two markers.
StartUnordered(a, b) == a

\* start: int = min(self._pending_marker_a, position_ms)
RegionStart(a, b) == Min(a, b)

\* end: int = max(self._pending_marker_a, position_ms)
RegionEnd(a, b) == Max(a, b)

\* A length test that only refuses an empty span.
TooShortIfEmpty(start, end) == end - start <= 0

\* if end - start < 100
TooShort(start, end) == end - start < MinRegionMs


Init ==
    /\ regions = <<>>
    /\ pending_marker_a = None
    /\ video_duration_ms = 0
    /\ color_index = 0
    /\ history = <<>>
    /\ history_index = -1
    /\ log = Logged("init", TRUE, FALSE)
    /\ streak = <<>>
    /\ undos = 0
    /\ undone = None
    /\ EncInit
    /\ built = NoBuild
    /\ parsed = NoLine
    /\ probed = NoProbe

\* REGION_COLORS[self._color_index % len(self.REGION_COLORS)]: a colour is
\* held as its number in the palette.
RegionColorUncycled(index) == index
RegionColor(index) == index % NumColors

\* clear_all: what it does to the object
ClearAllEffect ==
    LET snap == regions # <<>> \/ pending_marker_a # None
        saved == SaveHistory(history, history_index, regions)
    IN  /\ history' = IF snap THEN saved.history ELSE history
        /\ history_index' = IF snap THEN saved.history_index ELSE history_index
        /\ regions' = <<>>
        /\ pending_marker_a' = None
        /\ color_index' = 0

set_video_duration(duration_ms) ==
    /\ video_duration_ms' = duration_ms
    /\ ClearAllEffect
    /\ log' = Following(Emitting(Logged("set_video_duration", TRUE,
                                        regions # <<>> \/ pending_marker_a # None),
                                 ClearedAndChanged),
                        set_video_duration_body(Now, duration_ms))

set_marker_a(position_ms) ==
    IF position_ms < 0 \/ position_ms > video_duration_ms
    THEN /\ log' = Logged("set_marker_a", FALSE, FALSE)
         /\ UNCHANGED regionVars
    ELSE /\ pending_marker_a' = Some(position_ms)
         /\ log' = Following(Emitting(Logged("set_marker_a", TRUE, FALSE),
                                      <<"marker_a_set">>),
                             set_marker_a_body(position_ms))
         /\ UNCHANGED <<regions, video_duration_ms, color_index, history, history_index>>

set_marker_b(position_ms) ==
    IF pending_marker_a = None
    THEN /\ log' = LoggedCall("set_marker_b", FALSE, FALSE, position_ms, FALSE, <<>>)
         /\ UNCHANGED regionVars
    ELSE IF position_ms < 0 \/ position_ms > video_duration_ms
    THEN /\ log' = LoggedCall("set_marker_b", FALSE, FALSE, position_ms, FALSE, <<>>)
         /\ UNCHANGED regionVars
    ELSE LET start == RegionStart(ValueOf(pending_marker_a), position_ms)
             end == RegionEnd(ValueOf(pending_marker_a), position_ms)
             region == CutRegion(start, end, RegionColor(color_index))
             saved == SaveHistory(history, history_index, regions)
         IN  IF TooShort(start, end)
             THEN /\ log' = LoggedCall("set_marker_b", FALSE, FALSE, position_ms, FALSE, <<>>)
                  /\ UNCHANGED regionVars
             ELSE /\ color_index' = color_index + 1
                  /\ history' = saved.history
                  /\ history_index' = saved.history_index
                  /\ regions' = SortByStart(Append(regions, region))
                  /\ pending_marker_a' = None
                  /\ log' = Following(Emitting(LoggedCall("set_marker_b", TRUE, TRUE,
                                                          position_ms, FALSE, <<>>),
                                               ClearedAndChanged),
                                      set_marker_b_body(Now, region))
                  /\ UNCHANGED video_duration_ms

cancel_marker_a ==
    /\ pending_marker_a' = None
    /\ log' = Following(Emitting(Logged("cancel_marker_a", TRUE, FALSE),
                                 IF pending_marker_a # None
                                 THEN <<"marker_a_cleared">> ELSE <<>>),
                        cancel_marker_a_body(Now))
    /\ UNCHANGED <<regions, video_duration_ms, color_index, history, history_index>>

\* remove_region, with the name of the public method that was called
RemoveRegionAs(op, index) ==
    IF 0 <= index /\ index < Len(regions)
    THEN LET saved == SaveHistory(history, history_index, regions)
         IN  /\ history' = saved.history
             /\ history_index' = saved.history_index
             /\ regions' = RemoveAt(regions, index + 1)
             /\ log' = Following(Emitting(Logged(op, TRUE, TRUE), Changed),
                                 remove_region_body(index))
             /\ UNCHANGED <<pending_marker_a, video_duration_ms, color_index>>
    ELSE /\ log' = Logged(op, FALSE, FALSE)
         /\ UNCHANGED regionVars

remove_region(index) == RemoveRegionAs("remove_region", index)

edit_region(index, new_start_ms, new_end_ms) ==
    LET start == RegionStart(new_start_ms, new_end_ms)
        end == RegionEnd(new_start_ms, new_end_ms)
        saved == SaveHistory(history, history_index, regions)
    IN  IF ~(0 <= index /\ index < Len(regions))
             \/ start < 0 \/ end > video_duration_ms
             \/ TooShort(start, end)
        THEN /\ log' = Logged("edit_region", FALSE, FALSE)
             /\ UNCHANGED regionVars
        ELSE /\ history' = saved.history
             /\ history_index' = saved.history_index
             /\ regions' = SortByStart(
                    [regions EXCEPT ![index + 1] =
                        CutRegion(start, end, regions[index + 1].color)])
             /\ log' = Following(Emitting(Logged("edit_region", TRUE, TRUE), Changed),
                                 edit_region_body(index,
                                     CutRegion(start, end, regions[index + 1].color)))
             /\ UNCHANGED <<pending_marker_a, video_duration_ms, color_index>>

remove_region_at_position(position_ms) ==
    LET hits == {i \in 1 .. Len(regions) : contains(regions[i], position_ms)}
    IN  IF hits = {}
        THEN /\ log' = Logged("remove_region_at_position", FALSE, FALSE)
             /\ UNCHANGED regionVars
        ELSE RemoveRegionAs("remove_region_at_position",
                            (CHOOSE i \in hits : \A j \in hits : i <= j) - 1)

clear_all ==
    /\ ClearAllEffect
    /\ log' = Following(Emitting(Logged("clear_all", TRUE,
                                        regions # <<>> \/ pending_marker_a # None),
                                 ClearedAndChanged),
                        clear_all_body(Now))
    /\ UNCHANGED video_duration_ms

\* A restore that leaves marker A as it finds it.
MarkerKept(marker) == marker

\* self._pending_marker_a = None (in _restore_from_history)
MarkerAfterRestore(marker) == None

\* _restore_from_history at cursor idx
RestoreFromHistory(idx) ==
    IF 0 <= idx /\ idx < Len(history)
    THEN /\ regions' = history[idx + 1]
         /\ pending_marker_a' = MarkerAfterRestore(pending_marker_a)
    ELSE UNCHANGED <<regions, pending_marker_a>>

undo ==
    IF ~can_undo
    THEN /\ log' = Logged("undo", FALSE, FALSE)
         /\ UNCHANGED regionVars
    ELSE /\ history_index' = history_index - 1
         /\ RestoreFromHistory(history_index - 1)
         /\ log' = Following(Emitting(Logged("undo", TRUE, FALSE), ClearedAndChanged),
                             restore_body(Now, history_index - 1))
         /\ UNCHANGED <<video_duration_ms, color_index, history>>

redo ==
    IF ~can_redo
    THEN /\ log' = Logged("redo", FALSE, FALSE)
         /\ UNCHANGED regionVars
    ELSE /\ history_index' = history_index + 1
         /\ RestoreFromHistory(history_index + 1)
         /\ log' = Following(Emitting(Logged("redo", TRUE, FALSE), ClearedAndChanged),
                             restore_body(Now, history_index + 1))
         /\ UNCHANGED <<video_duration_ms, color_index, history>>

merge_overlapping_regions ==
    IF Len(regions) < 2
    THEN /\ log' = Logged("merge_overlapping_regions", FALSE, FALSE)
         /\ UNCHANGED regionVars
    ELSE LET saved == SaveHistory(history, history_index, regions)
         IN  /\ history' = saved.history
             /\ history_index' = saved.history_index
             /\ regions' = MergedRegions(regions)
             /\ log' = Following(Emitting(Logged("merge_overlapping_regions", TRUE, TRUE),
                                          Changed),
                                 merge_overlapping_regions_body)
             /\ UNCHANGED <<pending_marker_a, video_duration_ms, color_index>>

get_final_segments(keep_mode) ==
    /\ log' = LoggedCall("get_final_segments", TRUE, FALSE, 0, keep_mode,
                          GetFinalSegments(regions, video_duration_ms, keep_mode))
    /\ UNCHANGED regionVars

\* ---------------------------------------------- encoding session: worker

\* (current_time_ms, total_duration_ms) for which the double product
\* (current / total) * 100 falls just below the exact integer value.
FloatShort == {<<29, 100>>}

\* min(100, int((current_time_ms / self._total_duration_ms) * 100))
ProgressPct(current, total) ==
    LET exact == (current * 100) \div total
    IN  Min(100, IF <<current, total>> \in FloatShort THEN exact - 1 ELSE exact)

\* self.finished_encoding.emit(success, message) by worker record s
EmitFinished(s, term) ==
    [s EXCEPT !.terminal = term, !.cancel_seen = s.cancelled, !.pc = "done",
              !.lines = 0, !.current_time_ms = 0]

\* A _terminate_process that kills at once.
KillAtOnce(process, obeys) ==
    IF process = "none" THEN <<>> ELSE <<"kill">>

\* _terminate_process: the calls made on the process handle.  Nothing without
\* a handle; else terminate() and wait(timeout=5), which returns when the
\* child has ended (at once if it had ended before, or because it obeys the
\* request) and raises TimeoutExpired otherwise, and then kill().
TerminateCalls(process, obeys) ==
    IF process = "none"
    THEN <<>>
    ELSE IF process = "exited" \/ obeys
    THEN <<"terminate", "wait">>
    ELSE <<"terminate", "wait_timeout", "kill">>

\* _terminate_process: the child, if it was started and still runs, ends
\* (by terminate() if it obeys, by kill() after the wait if not) with return
\* code rc
Terminated(s, rc, obeys) ==
    IF s.process = "running"
    THEN [s EXCEPT !.process = "exited", !.returncode = rc,
                   !.handle_calls = TerminateCalls(s.process, obeys)]
    ELSE [s EXCEPT !.handle_calls = TerminateCalls(s.process, obeys)]

\* run(): subprocess.Popen starts the child, or raises
run_popen(w, outcome) ==
    /\ sessions[w].pc = "start"
    /\ IF outcome = "ok"
       THEN /\ sessions' = [sessions EXCEPT ![w].process = "running", ![w].pc = "read"]
            /\ UNCHANGED events
       ELSE LET term == Terminal(outcome, FALSE, 0)
            IN  /\ sessions' = [sessions EXCEPT ![w] = EmitFinished(@, term)]
                /\ events' = Append(events, FinishedEncodingEvent(w, term))
    /\ UNCHANGED <<worker, is_encoding, next_id, main, enc_log>>

\* if self._cancelled: (in the loop, after a line was read)
CancelledAtLine(s) == s.cancelled

\* run(): one iteration of `for line in self._process.stdout`; t is the output
\* position the line carries (-1: a line without '='), rc the code the child
\* ends with if this iteration terminates it, obeys whether it ends on
\* terminate()
run_line(w, t, rc, obeys) ==
    LET s == sessions[w]
        cur == IF t >= 0 THEN t ELSE s.current_time_ms
        term == Terminal("cancelled", FALSE, 0)
    IN  /\ s.pc = "read"
        /\ s.lines < MaxLines
        /\ IF CancelledAtLine(s)
           THEN /\ sessions' = [sessions EXCEPT ![w] = EmitFinished(Terminated(s, rc, obeys), term)]
                /\ events' = Append(events, FinishedEncodingEvent(w, term))
           ELSE /\ sessions' = [sessions EXCEPT ![w].lines = @ + 1,
                                                ![w].current_time_ms = cur]
                /\ events' = IF s.total_duration_ms > 0 /\ cur > 0
                             THEN Append(events,
                                         ProgressEvent(w, ProgressPct(cur, s.total_duration_ms), 120))
                             ELSE events
        /\ UNCHANGED <<worker, is_encoding, next_id, main, enc_log>>

\* run(): the output ends and self._process.wait() returns
run_eof(w) ==
    /\ sessions[w].pc = "read"
    /\ sessions[w].process = "exited"
    /\ sessions' = [sessions EXCEPT ![w].pc = "check",
                                    ![w].lines = 0, ![w].current_time_ms = 0]
    /\ UNCHANGED <<worker, is_encoding, next_id, events, main, enc_log>>

\* if self._cancelled: (after the wait)
CancelledAfterWait(s) == s.cancelled

\* run(): the test of _cancelled after the wait
run_check(w) ==
    LET s == sessions[w]
        term == Terminal("cancelled", FALSE, 0)
    IN  /\ s.pc = "check"
        /\ IF CancelledAfterWait(s)
           THEN /\ sessions' = [sessions EXCEPT ![w] = EmitFinished(s, term)]
                /\ events' = Append(events, FinishedEncodingEvent(w, term))
           ELSE /\ sessions' = [sessions EXCEPT ![w].pc = "report"]
                /\ UNCHANGED events
        /\ UNCHANGED <<worker, is_encoding, next_id, main, enc_log>>

\* A return-code test that takes every code for a success.
AnyCodeSucceeds(returncode) == returncode >= 0

\* if self._process.returncode == 0
ExitedWell(returncode) == returncode = 0

\* run(): the return code is reported
run_report(w) ==
    LET s == sessions[w]
        term == IF ExitedWell(s.returncode)
                THEN Terminal("success", TRUE, 0)
                ELSE Terminal("failed", FALSE, s.returncode)
    IN  /\ s.pc = "report"
        /\ sessions' = [sessions EXCEPT ![w] = EmitFinished(s, term)]
        /\ events' = IF ExitedWell(s.returncode)
                     THEN events \o <<ProgressEvent(w, 100, 142),
                                      FinishedEncodingEvent(w, term)>>
                     ELSE Append(events, FinishedEncodingEvent(w, term))
        /\ UNCHANGED <<worker, is_encoding, next_id, main, enc_log>>

\* A worker whose thread has ended: the thread's fields are read no more, and
\* the model keeps the child process and what the listeners were told.
EndedWorker(s) ==
    [NewWorker("finished", 0) EXCEPT !.process = s.process,
                                     !.started = s.started,
                                     !.delivered = s.delivered,
                                     !.told_encoding = s.told_encoding,
                                     !.handle_calls = s.handle_calls]

\* run() has returned: QThread emits finished
thread_finished(w) ==
    /\ sessions[w].pc = "done"
    /\ sessions' = [sessions EXCEPT ![w] = EndedWorker(@)]
    /\ events' = Append(events, ThreadFinishedEvent(w))
    /\ UNCHANGED <<worker, is_encoding, next_id, main, enc_log>>

\* The child process ends by itself with return code rc.
child_exit(w, rc) ==
    /\ sessions[w].process = "running"
    /\ sessions' = [sessions EXCEPT ![w].process = "exited", ![w].returncode = rc]
    /\ UNCHANGED <<worker, is_encoding, next_id, events, main, enc_log>>

\* ------------------------------------------ encoding session: main thread

\* A guard that never refuses a second encode().
NeverRefused == FALSE

\* if self._is_encoding: (encode)
EncodeRefused == is_encoding

\* VideoProcessor.encode; no_segments: the segment list is empty
encode(no_segments, total) ==
    /\ main.pc = "idle"
    /\ IF EncodeRefused \/ no_segments
       THEN /\ enc_log' = [op |-> "encode", ok |-> FALSE]
            /\ UNCHANGED <<worker, is_encoding, sessions, next_id, events, main>>
       ELSE /\ next_id < MaxSessions
            /\ next_id' = next_id + 1
            /\ sessions' = [sessions EXCEPT ![next_id + 1] =
                               [NewWorker("start", total) EXCEPT !.started = TRUE]]
            /\ worker' = next_id + 1
            /\ is_encoding' = TRUE
            /\ enc_log' = [op |-> "encode", ok |-> TRUE]
            /\ UNCHANGED <<events, main>>

\* VideoProcessor.cancel up to EncodingWorker.cancel's self._cancelled = True;
\* with a child started, the main thread goes on into _terminate_process
cancel ==
    /\ main.pc = "idle"
    /\ IF worker # 0 /\ is_encoding
       THEN /\ sessions' = IF sessions[worker].pc \in {"finished", "gone"}
                            THEN sessions
                            ELSE [sessions EXCEPT ![worker].cancelled = TRUE]
            /\ main' = IF sessions[worker].process # "none"
                       THEN [pc |-> "terminating", w |-> worker]
                       ELSE main
            /\ enc_log' = [op |-> "cancel", ok |-> TRUE]
       ELSE /\ enc_log' = [op |-> "cancel", ok |-> FALSE]
            /\ UNCHANGED <<sessions, main>>
    /\ UNCHANGED <<worker, is_encoding, next_id, events>>

\* EncodingWorker.cancel's _terminate_process, run by the main thread
cancel_terminate(rc, obeys) ==
    /\ main.pc = "terminating"
    /\ sessions' = [sessions EXCEPT ![main.w] = Terminated(@, rc, obeys)]
    /\ main' = [pc |-> "idle", w |-> 0]
    /\ UNCHANGED <<worker, is_encoding, next_id, events, enc_log>>

\* _on_progress, for the queued progress signal at the head of the queue
on_progress ==
    /\ main.pc = "idle"
    /\ events # <<>> /\ Head(events).sig = "progress"
    /\ events' = Tail(events)
    /\ UNCHANGED <<worker, is_encoding, sessions, next_id, main, enc_log>>

\* _on_finished emitting encoding_finished first and clearing the flag after.
IsEncodingWhenToldEarly(flag) == flag

\* _on_finished: self._is_encoding = False, then self.encoding_finished.emit:
\* the flag as the listeners of encoding_finished find it
IsEncodingWhenTold(flag) ==
    LET cleared == FALSE
    IN  cleared

\* _on_finished, for the queued finished_encoding signal
on_finished ==
    /\ main.pc = "idle"
    /\ events # <<>> /\ Head(events).sig = "finished_encoding"
    /\ events' = Tail(events)
    /\ is_encoding' = FALSE
    /\ sessions' = [sessions EXCEPT
                        ![Head(events).w].delivered = TRUE,
                        ![Head(events).w].told_encoding = IsEncodingWhenTold(is_encoding)]
    /\ UNCHANGED <<worker, next_id, main, enc_log>>

\* _on_thread_finished, for the queued QThread.finished signal (the last
\* signal of its worker)
on_thread_finished ==
    /\ main.pc = "idle"
    /\ events # <<>> /\ Head(events).sig = "finished"
    /\ events' = Tail(events)
    /\ worker' = 0
    /\ sessions' = [sessions EXCEPT ![Head(events).w] = GoneWorker]
    /\ UNCHANGED <<is_encoding, next_id, main, enc_log>>

\* ------------------------------------------------------------ specifications

vars == <<regions, pending_marker_a, video_duration_ms, color_index,
          history, history_index, log, streak, undos, undone,
          worker, is_encoding, sessions, next_id, events, main, enc_log,
          built, parsed, probed>>

\* What a call of the Region Model leaves alone in Spec.
Rest ==
    /\ log'.snap => MaySnapshot
    /\ FewRegions
    /\ UNCHANGED <<undoVars, encVars, cmdVars>>

Next ==
    \/ \E d \in Durations : set_video_duration(d) /\ Rest
    \/ \E p \in Positions : set_marker_a(p) /\ Rest
    \/ \E p \in Positions : set_marker_b(p) /\ Rest
    \/ cancel_marker_a /\ Rest
    \/ \E i \in Indices : remove_region(i) /\ Rest
    \/ \E i \in Indices, s, e \in Positions : edit_region(i, s, e) /\ Rest
    \/ \E p \in Positions : remove_region_at_position(p) /\ Rest
    \/ clear_all /\ Rest
    \/ merge_overlapping_regions /\ Rest
    \/ \E k \in BOOLEAN : get_final_segments(k) /\ Rest
    \/ undo /\ Rest
    \/ redo /\ Rest

Spec == Init /\ [][Next]_vars

\* The record kept for SpecUndo.  A call that took a snapshot extends the
\* current run with the region list it found (a run that undo() calls have
\* followed is over, and a new one starts); undo() is counted against the run
\* while it has operations left to undo; redo() ends the run; any other call
\* (placing or cancelling marker A, a rejected call, a query) leaves it alone.
Track ==
    IF log'.snap
    THEN /\ streak' = IF undos > 0 THEN <<regions>> ELSE Append(streak, regions)
         /\ undos' = 0
    ELSE IF log'.op = "undo" /\ undos < Len(streak)
    THEN /\ undos' = undos + 1
         /\ streak' = streak
    ELSE IF log'.op \in {"undo", "redo"}
    THEN /\ streak' = <<>>
         /\ undos' = 0
    ELSE UNCHANGED <<streak, undos>>

\* The region list that an undo() which returned true has just replaced.
TrackUndone ==
    undone' = IF log'.op = "undo" /\ log'.ok THEN Some(regions) ELSE None

\* A call of the Region Model in SpecUndo.
Tracked ==
    /\ log'.snap => MaySnapshot
    /\ FewRegions
    /\ Track
    /\ TrackUndone
    /\ UNCHANGED <<encVars, cmdVars>>

\* SpecUndo drives the same methods with positions inside the longest video.
UndoPositions == {k * Step : k \in 0 .. MaxPos} \ {Step}
UndoDurations == {MaxPos * Step}
UndoIndices == 0 .. (MaxRegions - 1)

NextUndo ==
    \/ \E d \in UndoDurations : set_video_duration(d) /\ Tracked
    \/ \E p \in UndoPositions : set_marker_a(p) /\ Tracked
    \/ \E p \in UndoPositions : set_marker_b(p) /\ Tracked
    \/ cancel_marker_a /\ Tracked
    \/ \E i \in UndoIndices : remove_region(i) /\ Tracked
    \/ \E i \in UndoIndices, s, e \in UndoPositions : edit_region(i, s, e) /\ Tracked
    \/ \E p \in UndoPositions : remove_region_at_position(p) /\ Tracked
    \/ clear_all /\ Tracked
    \/ merge_overlapping_regions /\ Tracked
    \/ undo /\ Tracked
    \/ redo /\ Tracked

SpecUndo == Init /\ [][NextUndo]_vars

\* SpecHistory: with no video loaded (duration 0) position 0 is the only valid
\* one and no region can be made; placing marker A and clearing it takes one
\* snapshot after another, up to the program's own maximum and beyond.
Unrecorded == FewRegions /\ UNCHANGED <<undoVars, encVars, cmdVars>>

NextHistory ==
    \/ set_marker_a(0) /\ Unrecorded
    \/ clear_all /\ Unrecorded
    \/ undo /\ Unrecorded
    \/ redo /\ Unrecorded

SpecHistory == Init /\ [][NextHistory]_vars

\* SpecCap: one region after another is created over the whole of a 100 ms
\* video and removed again, so that every call of set_marker_b and of
\* remove_region takes a snapshot (of the empty list, and of a list with one
\* region whose colour changes from one to the next); the editing goes on until
\* MaxCapColor regions have been created, and once the history is full undo()
\* and redo() may follow, after which no more editing is done.
MaxCapColor == 27
Undoing(call) == call.op \in {"undo", "redo"}
CapBounded ==
    /\ Len(regions') <= 1
    /\ color_index' <= MaxCapColor
    /\ Undoing(log) => Undoing(log')
    /\ Undoing(log') => Len(history) = max_history
    /\ UNCHANGED <<undoVars, encVars, cmdVars>>

NextCap ==
    \/ video_duration_ms = 0 /\ set_video_duration(MinRegionMs) /\ CapBounded
    \/ set_marker_a(0) /\ CapBounded
    \/ set_marker_b(MinRegionMs) /\ CapBounded
    \/ remove_region(0) /\ CapBounded
    \/ undo /\ CapBounded
    \/ redo /\ CapBounded

SpecCap == Init /\ [][NextCap]_vars

\* SpecColor: a video of 200 ms on which regions are created until the
\* palette has been gone through once and begun again, with every other
\* operation of the Region Model in between; at most two regions exist at a
\* time and the history is let grow to MaxColorHistory snapshots.
MaxColor == 7
MaxColorHistory == 2
ColorBounded ==
    /\ Len(regions') <= 2
    /\ color_index' <= MaxColor
    /\ Len(history') <= MaxColorHistory
    /\ UNCHANGED <<undoVars, encVars, cmdVars>>

NextColor ==
    \/ video_duration_ms = 0 /\ set_video_duration(2 * MinRegionMs) /\ ColorBounded
    \/ \E p \in {0, MinRegionMs} : set_marker_a(p) /\ ColorBounded
    \/ \E p \in {Step, MinRegionMs, 2 * MinRegionMs} : set_marker_b(p) /\ ColorBounded
    \/ remove_region(0) /\ ColorBounded
    \/ \E e \in {Step, 2 * MinRegionMs} : edit_region(0, 0, e) /\ ColorBounded
    \/ merge_overlapping_regions /\ ColorBounded
    \/ clear_all /\ ColorBounded
    \/ undo /\ ColorBounded
    \/ redo /\ ColorBounded

SpecColor == Init /\ [][NextColor]_vars

\* SpecMerge: a video of MaxMergePos * 100 ms and markers on a 100 ms grid,
\* so that regions can be apart, touch, overlap and nest; the history is let
\* grow to MaxMergeHistory snapshots.
MaxMergePos == 4
MaxMergeHistory == 4
MergePositions == {k * MinRegionMs : k \in 0 .. MaxMergePos}
MergeBounded ==
    /\ Len(history') <= MaxMergeHistory
    /\ FewRegions
    /\ UNCHANGED <<undoVars, encVars, cmdVars>>

NextMerge ==
    \/ set_video_duration(MaxMergePos * MinRegionMs) /\ MergeBounded
    \/ \E p \in MergePositions : set_marker_a(p) /\ MergeBounded
    \/ \E p \in MergePositions : set_marker_b(p) /\ MergeBounded
    \/ merge_overlapping_regions /\ MergeBounded

SpecMerge == Init /\ [][NextMerge]_vars

NextEnc ==
    \/ \E n \in BOOLEAN, t \in Totals : encode(n, t) /\ UNCHANGED <<regionVars, log, undoVars, cmdVars>>
    \/ cancel /\ UNCHANGED <<regionVars, log, undoVars, cmdVars>>
    \/ \E rc \in ExitCodes, obeys \in BOOLEAN :
            cancel_terminate(rc, obeys) /\ UNCHANGED <<regionVars, log, undoVars, cmdVars>>
    \/ on_progress /\ UNCHANGED <<regionVars, log, undoVars, cmdVars>>
    \/ on_finished /\ UNCHANGED <<regionVars, log, undoVars, cmdVars>>
    \/ on_thread_finished /\ UNCHANGED <<regionVars, log, undoVars, cmdVars>>
    \/ \E w \in Workers, o \in {"ok", "not_found", "unexpected"} :
            run_popen(w, o) /\ UNCHANGED <<regionVars, log, undoVars, cmdVars>>
    \/ \E w \in Workers, t \in LineTimes, rc \in ExitCodes, obeys \in BOOLEAN :
            run_line(w, t, rc, obeys) /\ UNCHANGED <<regionVars, log, undoVars, cmdVars>>
    \/ \E w \in Workers : run_eof(w) /\ UNCHANGED <<regionVars, log, undoVars, cmdVars>>
    \/ \E w \in Workers : run_check(w) /\ UNCHANGED <<regionVars, log, undoVars, cmdVars>>
    \/ \E w \in Workers : run_report(w) /\ UNCHANGED <<regionVars, log, undoVars, cmdVars>>
    \/ \E w \in Workers : thread_finished(w) /\ UNCHANGED <<regionVars, log, undoVars, cmdVars>>
    \/ \E w \in Workers, rc \in ExitCodes :
            child_exit(w, rc) /\ UNCHANGED <<regionVars, log, undoVars, cmdVars>>

SpecEnc == Init /\ [][NextEnc]_vars

\* SpecEncFair: SpecEnc in which a worker thread that can go on in run() does
\* (the thread is scheduled), the child process, while it runs, prints a line
\* that the worker reads or ends (it exits or closes its output; it prints at
\* most MaxLines lines and so cannot run for ever), the main thread's event loop handles the signals queued for it,
\* and the main thread comes back from _terminate_process (its wait is
\* bounded by the 5 s timeout).  The event loop is strongly fair: calls of
\* cancel() are events of the same loop and cannot keep a queued signal waiting
\* for ever.  Nothing obliges encode(), cancel() or another line of output to
\* happen.
EncOnly == UNCHANGED <<regionVars, log, undoVars, cmdVars>>
WorkerRuns(w) ==
    \/ \E o \in {"ok", "not_found", "unexpected"} : run_popen(w, o)
    \/ run_eof(w)
    \/ run_check(w)
    \/ run_report(w)
    \/ thread_finished(w)
ChildActs(w) ==
    \/ \E t \in LineTimes, rc \in ExitCodes, obeys \in BOOLEAN : run_line(w, t, rc, obeys)
    \/ \E rc \in ExitCodes : child_exit(w, rc)
EventLoop == on_progress \/ on_finished \/ on_thread_finished
MainReturns == \E rc \in ExitCodes, obeys \in BOOLEAN : cancel_terminate(rc, obeys)
SpecEncFair ==
    /\ Init /\ [][NextEnc]_vars
    /\ \A w \in Workers : WF_vars(WorkerRuns(w) /\ EncOnly)
    /\ \A w \in Workers : WF_vars(ChildActs(w) /\ EncOnly)
    /\ SF_vars(EventLoop /\ EncOnly)
    /\ WF_vars(MainReturns /\ EncOnly)

\* ---------------------------------------------- command builder: the calls

\* A call of a builder leaves the controller and the Region Model alone.
BuilderOnly == UNCHANGED <<regionVars, log, undoVars, encVars, parsed, probed>>

CallSingleSegment(seg) ==
    /\ built' = BuilderCall("build_single_segment_command", <<seg>>, TRUE, FALSE,
                            build_single_segment_command(seg[1], seg[2]))
    /\ BuilderOnly

CallMultiSegment(segments) ==
    /\ built' = BuilderCall("build_multi_segment_command", segments, TRUE, FALSE,
                            build_multi_segment_command(segments))
    /\ BuilderOnly

CallVideoOnly(segments) ==
    /\ built' = BuilderCall("build_video_only_multi_segment_command", segments,
                            FALSE, FALSE,
                            build_video_only_multi_segment_command(segments))
    /\ BuilderOnly

CallWithSeparators(segments, separator_duration, has_audio) ==
    /\ built' = BuilderCall("build_multi_segment_with_separators_command", segments,
                            has_audio, TRUE,
                            build_multi_segment_with_separators_command(
                                segments, separator_duration, has_audio))
    /\ BuilderOnly

CallTotalDuration(segments, separator_duration) ==
    /\ built' = [BuilderCall("calculate_total_duration_with_separators", segments,
                             FALSE, TRUE, Command(<<>>))
                    EXCEPT !.separator_duration = separator_duration,
                           !.total = calculate_total_duration_with_separators(
                                         segments, separator_duration)]
    /\ BuilderOnly

\* VideoProcessor.encode with its arguments: the guards, the command it
\* builds, and the session it starts; built records the command the worker
\* was given (none when encode() returned before building one).
Export(segments, has_audio, separator_enabled, separator_duration) ==
    LET cmd == EncodeCommand(segments, has_audio, separator_enabled, separator_duration)
        total == EncodeTotal(segments, separator_enabled, separator_duration)
        unbuilt == is_encoding \/ EmptySegments(segments)
    IN  /\ encode(EmptySegments(segments) \/ cmd.raised, total)
        /\ built' = BuilderCall("encode", segments, has_audio, separator_enabled,
                                IF unbuilt THEN Command(<<>>) ELSE cmd)
        /\ UNCHANGED <<regionVars, log, undoVars, parsed, probed>>

\* The builders are called on their own while no session runs; once encode()
\* has started one, only encode() is called again, with the same segments (and
\* refused).
NextCmd ==
    \/ ~is_encoding /\ \E seg \in SegmentChoices : CallSingleSegment(seg)
    \/ ~is_encoding /\ \E segs \in SegmentLists : CallMultiSegment(segs)
    \/ ~is_encoding /\ \E segs \in SegmentLists : CallVideoOnly(segs)
    \/ ~is_encoding /\ \E segs \in SegmentLists, d \in SeparatorDurations, a \in BOOLEAN :
           CallWithSeparators(segs, d, a)
    \/ ~is_encoding /\ \E segs \in SegmentLists, d \in SeparatorDurations :
           CallTotalDuration(segs, d)
    \/ \E segs \in SegmentLists, a \in BOOLEAN, sep \in BOOLEAN,
          d \in SeparatorDurations :
           (is_encoding => segs = built.segments) /\ Export(segs, a, sep, d)

SpecCmd == Init /\ [][NextCmd]_vars

\* ----------------------------------------------- progress lines: the calls

\* A call of the parsing code leaves everything else alone.
ParsingOnly == UNCHANGED <<regionVars, log, undoVars, encVars, built, probed>>

CallParseTime(time_str) ==
    /\ parsed' = Handled("parse_time_to_ms", KeyValue("out_time", time_str), 0,
                         parse_time_to_ms(time_str))
    /\ ParsingOnly

\* One line read by the loop of EncodingWorker.run (not cancelled): the
\* position it gives and the signals emitted; an exception leaves the loop.
ReadLine(line, current_time_ms, total_duration_ms) ==
    LET outcome == ExtractTime(line, current_time_ms)
    IN  /\ parsed' = [Handled("run", line, current_time_ms, outcome)
                         EXCEPT !.emitted =
                             IF outcome.error = "none"
                             THEN IterationEmits(line, outcome.n, total_duration_ms)
                             ELSE <<>>]
        /\ ParsingOnly

NextParse ==
    \/ \E v \in LineValues : CallParseTime(v)
    \/ \E line \in ProgressLines, c \in PositionsBefore, t \in Totals : ReadLine(line, c, t)

SpecParse == Init /\ [][NextParse]_vars

\* --------------------------------------------------- metadata probe: calls

CallProbe(file) ==
    /\ probed' = Probed("probe", file, probe(file))
    /\ UNCHANGED <<regionVars, log, undoVars, encVars, built, parsed>>

NextProbe == \E file \in ProbeInputs : CallProbe(file)

SpecProbe == Init /\ [][NextProbe]_vars

\* ---------------------------------------------------- encoder probe: calls

\* detect_available_encoder is run once (lru_cache keeps its result).
CallDetect(machine) ==
    /\ probed.op = "none"
    /\ probed' = Probed("detect_available_encoder", machine,
                        detect_available_encoder(machine))
    /\ UNCHANGED <<regionVars, log, undoVars, encVars, built, parsed>>

NextDetect == \E machine \in Machines : CallDetect(machine)

SpecDetect == Init /\ [][NextDetect]_vars

\* ------------------------------------------------------------------ claims

\* The step is one of C1's operations, carried out: a region created by
\* set_marker_b, remove_region, edit_region, clear_all with regions to clear,
\* merge_overlapping_regions on two or more regions.
C1_Mutation ==
    /\ log'.snap
    /\ \/ log'.op \in {"set_marker_b", "remove_region", "edit_region",
                       "merge_overlapping_regions"}
       \/ log'.op = "clear_all" /\ regions # <<>>

\* C1: after any one of these operations can_undo() is true and the snapshot
\* undo() would restore, the one just below the cursor, is the region list as
\* it was before the operation.
C1_UndoRestoresPrior ==
    [][C1_Mutation => (can_undo' /\ history'[history_index'] = regions)]_vars

\* C2: after N snapshotting operations and then N undo() calls, for every
\* N >= 1, the region list is the one found by the first of those operations.
C2_NUndosRestoreStart ==
    undos >= 1 => regions = streak[Len(streak) - undos + 1]

\* C3: set_marker_a(a) with a in [0, D] returns true and leaves a pending;
\* set_marker_b(b) called next with b in [0, D] and |a-b| >= 100 returns true,
\* adds exactly one region, from min(a,b) to max(a,b), keeps every region that
\* was there, and leaves no pending marker.
C3_MarkerPairCreatesRegion ==
    [][/\ \A a \in Positions :
            (log'.op = "set_marker_a" /\ 0 <= a /\ a <= video_duration_ms
                /\ set_marker_a(a))
                => (log'.ok /\ pending_marker_a' = Some(a))
       /\ \A b \in Positions :
            LET a == ValueOf(pending_marker_a)
            IN  (/\ log.op = "set_marker_a" /\ log.ok
                 /\ log'.op = "set_marker_b"
                 /\ 0 <= b /\ b <= video_duration_ms
                 /\ Max(a, b) - Min(a, b) >= 100
                 /\ set_marker_b(b))
                => /\ log'.ok
                   /\ pending_marker_a' = None
                   /\ Len(regions') = Len(regions) + 1
                   /\ \E k \in 1 .. Len(regions') :
                        /\ regions'[k].start_ms = Min(a, b)
                        /\ regions'[k].end_ms = Max(a, b)
                        /\ RemoveAt(regions', k) = regions]_vars

\* C3's case: a region was just created next to two earlier ones.
C3_Witness ==
    /\ log.op = "set_marker_b" /\ log.ok
    /\ Len(regions) = 3
    /\ pending_marker_a = None

\* C4: set_marker_b(b) called after a successful set_marker_a(a) with
\* |a-b| < 100 returns false, leaves a pending, and changes neither the
\* regions nor the history.
C4_ShortSpanRejected ==
    [][\A b \in Positions :
         LET a == ValueOf(pending_marker_a)
         IN  (/\ log.op = "set_marker_a" /\ log.ok
              /\ log'.op = "set_marker_b"
              /\ Max(a, b) - Min(a, b) < 100
              /\ set_marker_b(b))
             => /\ ~log'.ok /\ ~log'.snap
                /\ pending_marker_a' = pending_marker_a
                /\ regions' = regions
                /\ history' = history
                /\ history_index' = history_index
                /\ color_index' = color_index]_vars

\* C4's case: set_marker_b was rejected for a position in the video that is
\* less than 100 ms away from, and not on, the pending marker.
C4_Witness ==
    /\ log.op = "set_marker_b" /\ ~log.ok
    /\ pending_marker_a # None
    /\ 0 <= log.pos /\ log.pos <= video_duration_ms
    /\ log.pos # ValueOf(pending_marker_a)
    /\ regions # <<>>

\* The instants of [0, D] between a and b are covered by no region.
Uncovered(regs, a, b) ==
    \A i \in 1 .. Len(regs) : regs[i].end_ms <= a \/ regs[i].start_ms >= b

\* The maximal sub-intervals of [0, D] that no region covers, as pairs of ms.
Gaps(regs, D) ==
    LET marks == {0, D} \cup {regs[i].start_ms : i \in 1 .. Len(regs)}
                        \cup {regs[i].end_ms : i \in 1 .. Len(regs)}
        pts == {m \in marks : 0 <= m /\ m <= D}
    IN  {ab \in pts \X pts :
            /\ ab[1] < ab[2]
            /\ Uncovered(regs, ab[1], ab[2])
            /\ ab[1] = 0 \/ \E i \in 1 .. Len(regs) :
                                regs[i].start_ms < ab[1] /\ ab[1] <= regs[i].end_ms
            /\ ab[2] = D \/ \E i \in 1 .. Len(regs) :
                                regs[i].start_ms <= ab[2] /\ ab[2] < regs[i].end_ms}

\* C5: in cut mode with at least one region, the segments returned are
\* exactly the maximal sub-intervals of [0, duration] covered by no region.
C5_CutIsComplement ==
    (log.op = "get_final_segments" /\ ~log.keep /\ regions # <<>>)
        => /\ {log.segs[i] : i \in 1 .. Len(log.segs)}
                = {<<Seconds(g[1]), Seconds(g[2])>> : g \in Gaps(regions, video_duration_ms)}
           /\ Len(log.segs) = Cardinality(Gaps(regions, video_duration_ms))

\* C6: in keep mode with at least one region, the result is one segment per
\* region, (start_ms/1000, end_ms/1000), in the order of the list, and that
\* order is ascending in start.
C6_KeepIsRegionsAscending ==
    (log.op = "get_final_segments" /\ log.keep /\ regions # <<>>)
        => /\ Len(log.segs) = Len(regions)
           /\ \A i \in 1 .. Len(regions) :
                /\ log.segs[i][1] = <<regions[i].start_ms \div 1000, regions[i].start_ms % 1000>>
                /\ log.segs[i][2] = <<regions[i].end_ms \div 1000, regions[i].end_ms % 1000>>
           /\ \A i \in 1 .. Len(log.segs), j \in 1 .. Len(log.segs) :
                i < j => ~SecLess(log.segs[j][1], log.segs[i][1])

\* C6's case: keep mode on a list whose first region was created after its
\* second one (the colours tell), so that the sort moved it.
C6_Witness ==
    /\ log.op = "get_final_segments" /\ log.keep
    /\ Len(regions) >= 2
    /\ regions[1].color > regions[2].color
    /\ regions[1].start_ms < regions[2].start_ms
    /\ Len(log.segs) = Len(regions)

\* C7: a call that takes a snapshot leaves can_redo() false, whether or not an
\* undo() had left snapshots beyond the cursor, and a redo() called right
\* after it returns false and leaves the region list as it is.
C7_MutationDiscardsRedo ==
    [][/\ log'.snap => ~can_redo'
       /\ (log.snap /\ log'.op = "redo" /\ redo) => (~log'.ok /\ regions' = regions
                                  /\ history_index' = history_index)]_vars

\* C7's case: redo() was possible (after an undo()) when a snapshotting call
\* was made, and is not any more.
C7_Witness ==
    /\ log.snap /\ log.had_redo
    /\ ~can_redo

\* A session is Running from the encode() that started it until its worker
\* emits the terminal notification.
Running(w) == sessions[w].pc \in {"start", "read", "check", "report"}

\* C8: at most one session is Running at any time, and encode() called while
\* is_encoding is true returns false, creates no worker, emits no
\* encoding_started and leaves the sessions, the queue and the flag alone.
C8_OneSessionRunning ==
    /\ [](Cardinality({w \in Workers : Running(w)}) <= 1)
    /\ [][(is_encoding /\ enc_log'.op = "encode"
             /\ \E n \in BOOLEAN, t \in Totals : encode(n, t))
            => /\ ~enc_log'.ok
               /\ UNCHANGED <<worker, is_encoding, sessions, next_id, events, main>>]_vars

\* C8's case: encode() was called, and refused, during a Running session.
C8_Witness ==
    /\ enc_log.op = "encode" /\ ~enc_log.ok
    /\ is_encoding
    /\ \E w \in Workers : Running(w) /\ sessions[w].process = "running"

\* C9: a session whose cancel() came before its terminal notification was
\* emitted (_cancelled was set when the worker emitted it) reports Cancelled.
C9_CancelledReportsCancelled ==
    \A w \in Workers :
        (sessions[w].terminal.kind # "none" /\ sessions[w].cancel_seen)
            => sessions[w].terminal.kind = "cancelled"

\* C10: when a worker whose child has exited emits its terminal notification
\* with no cancellation requested, return code 0 gives progress(100) and then
\* finished_encoding(True, success), and any other code gives only
\* finished_encoding(False, failed with that code).
C10_ExitCodeDecides ==
    [][\A w \in Workers :
         (/\ sessions[w].terminal.kind = "none"
          /\ sessions'[w].terminal.kind # "none"
          /\ ~sessions'[w].cancelled
          /\ sessions[w].process = "exited")
         => IF sessions[w].returncode = 0
            THEN /\ sessions'[w].terminal = Terminal("success", TRUE, 0)
                 /\ events' = events \o
                        <<ProgressEvent(w, 100, 142),
                          FinishedEncodingEvent(w, Terminal("success", TRUE, 0))>>
            ELSE /\ sessions'[w].terminal = Terminal("failed", FALSE, sessions[w].returncode)
                 /\ events' = Append(events,
                        FinishedEncodingEvent(w,
                            Terminal("failed", FALSE, sessions[w].returncode)))]_vars

\* C10's case: with no cancellation, one session has ended on return code 0
\* and another on return code 1.
C10_Witness ==
    \E v \in Workers, w \in Workers :
        /\ ~sessions[v].cancelled /\ sessions[v].terminal.kind = "success"
        /\ sessions[v].process = "exited" /\ sessions[v].returncode = 0
        /\ ~sessions[w].cancelled /\ sessions[w].terminal.kind = "failed"
        /\ sessions[w].terminal.code = 1 /\ sessions[w].returncode = 1

\* C11: a session whose encoder process could not be launched (Popen raised)
\* was never shown to the listeners as Running: encoding_started was not
\* emitted for it.
C11_LaunchFailureNeverRunning ==
    \A w \in Workers :
        sessions[w].terminal.kind \in {"not_found", "unexpected"}
            => ~sessions[w].started

\* The three builders that take a segment list.
ListBuilders ==
    {"build_multi_segment_command", "build_video_only_multi_segment_command",
     "build_multi_segment_with_separators_command"}

\* C12: every builder called with an empty segment list raises, and encode()
\* called with an empty list returns false, builds no command, creates no
\* worker (so no process can be spawned), queues nothing, emits no
\* encoding_started and leaves is_encoding as it was (false if it was false).
C12_EmptyListAborts ==
    /\ []((built.op \in ListBuilders /\ built.segments = <<>>)
            => (built.raised /\ built.args = <<>>))
    /\ [][(built'.op = "encode" /\ built'.segments = <<>>)
            => /\ enc_log'.op = "encode" /\ ~enc_log'.ok
               /\ built'.args = <<>>
               /\ UNCHANGED <<worker, is_encoding, sessions, next_id, events, main>>
               /\ (~is_encoding => ~is_encoding')]_vars

\* C12's case: a controller that is not encoding was asked to encode an empty
\* list and refused.
C12_Witness ==
    /\ built.op = "encode" /\ built.segments = <<>>
    /\ enc_log.op = "encode" /\ ~enc_log.ok
    /\ ~is_encoding /\ next_id = 0

\* The positions of the filter graphs in an argument list, and the concat
\* parts of a graph.
GraphPositions(args) == {i \in 1 .. Len(args) : args[i].graph # <<>>}
ConcatParts(graph) == {i \in 1 .. Len(graph) : graph[i].filter = "concat"}

\* C13: a command built from one segment has no -filter_complex argument and
\* no filter graph; a command built from N >= 2 segments has exactly one
\* -filter_complex argument, followed by a graph with exactly one concat,
\* which declares n = N without separators and n = 2N - 1 with separators.
C13_FilterGraphByCount ==
    (built.op # "none" /\ ~built.raised /\ built.args # <<>>)
    => LET N == Len(built.segments)
           args == built.args
           flags == {i \in 1 .. Len(args) : args[i].text = "-filter_complex"}
       IN  IF N = 1
           THEN flags = {} /\ GraphPositions(args) = {}
           ELSE /\ Cardinality(flags) = 1
                /\ GraphPositions(args) = {i + 1 : i \in flags}
                /\ \A i \in GraphPositions(args) :
                      /\ Cardinality(ConcatParts(args[i].graph)) = 1
                      /\ \A k \in ConcatParts(args[i].graph) :
                            args[i].graph[k].n =
                                IF built.separators THEN 2 * N - 1 ELSE N

\* C13's case: encode() built a command from three segments with separators
\* and no audio, whose concat declares five elements.
C13_Witness ==
    /\ built.op = "encode" /\ Len(built.segments) = 3
    /\ built.separators /\ ~built.has_audio
    /\ \E i \in GraphPositions(built.args) :
          \E k \in ConcatParts(built.args[i].graph) : built.args[i].graph[k].n = 5

\* A region list in non-decreasing order of start_ms.
SortedByStart(regs) ==
    \A i \in 1 .. Len(regs) - 1 : regs[i].start_ms <= regs[i + 1].start_ms

\* C14: in every reachable state the region list is sorted by start_ms in
\* non-decreasing order.
C14_RegionsSorted == SortedByStart(regions)

\* C14's case: an edit_region succeeded on a list that holds a region created
\* later in front of a region created earlier.
C14_Witness ==
    /\ log.op = "edit_region" /\ log.ok
    /\ Len(regions) >= 2
    /\ regions[1].start_ms < regions[2].start_ms
    /\ regions[1].color > regions[2].color

\* A region that starts at or after 0 and lasts at least the minimum.
WellFormed(r) == r.start_ms >= 0 /\ r.end_ms - r.start_ms >= 100

\* C15: every region of the region list and of every history snapshot has
\* start_ms >= 0 and end_ms - start_ms >= 100.
C15_RegionsWellFormed ==
    /\ \A i \in 1 .. Len(regions) : WellFormed(regions[i])
    /\ \A h \in 1 .. Len(history) :
          \A i \in 1 .. Len(history[h]) : WellFormed(history[h][i])

\* C15's case: a merge has produced the region list while a snapshot holds
\* two regions.
C15_Witness ==
    /\ log.op = "merge_overlapping_regions" /\ log.snap
    /\ regions # <<>>
    /\ \E h \in 1 .. Len(history) : Len(history[h]) >= 2

\* C16: the history cursor is at least -1 and below the length of the
\* history, it is -1 exactly when the history is empty, and the history never
\* holds more than 50 snapshots.
C16_CursorInHistory ==
    /\ -1 <= history_index /\ history_index < Len(history)
    /\ (history_index = -1) <=> (history = <<>>)
    /\ Len(history) <= 50

\* C16's case: a snapshot has been taken when the history already held 50 of
\* them and the cursor was on the last.
C16_Witness ==
    /\ log.snap /\ log.full /\ ~log.had_redo
    /\ Len(history) = 50 /\ history_index = 49

\* C17: marker A is a single optional position, and none is pending right
\* after a successful set_marker_b, a cancel_marker_a, a clear_all, a
\* set_video_duration, or a successful undo() or redo().
C17_MarkerCleared ==
    /\ Len(pending_marker_a) <= 1
    /\ (\/ log.op \in {"set_marker_b", "undo", "redo"} /\ log.ok
        \/ log.op \in {"cancel_marker_a", "clear_all", "set_video_duration"})
       => pending_marker_a = None

\* C17's case: a redo() has succeeded and restored a non-empty list.
C17_Witness ==
    /\ log.op = "redo" /\ log.ok
    /\ regions # <<>>
    /\ pending_marker_a = None

\* A call that returned false, emitted nothing and changed nothing.
NoOp ==
    /\ ~log'.ok
    /\ log'.emitted = <<>>
    /\ UNCHANGED <<regions, pending_marker_a, history, history_index, color_index>>

OutOfVideo(p) == p < 0 \/ p > video_duration_ms
BadIndex(i) == ~(0 <= i /\ i < Len(regions))

\* C18: each rejected call is a no-op.  set_marker_a or set_marker_b outside
\* [0, duration], set_marker_b without a pending marker or with a span under
\* 100 ms, remove_region or edit_region with an invalid index, edit_region with
\* out-of-range or too-short bounds, remove_region_at_position on a position no
\* region contains, undo() without can_undo() and redo() without can_redo()
\* return false, emit no signal and leave the regions, the pending marker, the
\* history, the cursor and the colour counter unchanged.  Said of a step: a
\* call of one of these methods that returned false was a no-op, and a call
\* that returned true was not made with any of the arguments listed.
C18_RejectedIsNoOp ==
    [][/\ (log'.op \in {"set_marker_a", "set_marker_b", "remove_region",
                        "edit_region", "remove_region_at_position", "undo", "redo"}
           /\ ~log'.ok) => NoOp
       /\ (log'.op = "set_marker_a" /\ log'.ok) =>
            \A p \in Positions : OutOfVideo(p) => ~set_marker_a(p)
       /\ (log'.op = "set_marker_b" /\ log'.ok) =>
            \A p \in Positions :
               (\/ OutOfVideo(p)
                \/ pending_marker_a = None
                \/ p - ValueOf(pending_marker_a) \in -99 .. 99) => ~set_marker_b(p)
       /\ (log'.op = "remove_region" /\ log'.ok) =>
            \A i \in Indices : BadIndex(i) => ~remove_region(i)
       /\ (log'.op = "edit_region" /\ log'.ok) =>
            \A i \in Indices, s \in Positions, e \in Positions :
               (\/ BadIndex(i)
                \/ OutOfVideo(s) \/ OutOfVideo(e)
                \/ s - e \in -99 .. 99) => ~edit_region(i, s, e)
       /\ (log'.op = "remove_region_at_position" /\ log'.ok) =>
            \A p \in Positions :
               (\A k \in 1 .. Len(regions) : ~contains(regions[k], p))
                   => ~remove_region_at_position(p)
       /\ (log'.op = "undo" /\ log'.ok) => can_undo
       /\ (log'.op = "redo" /\ log'.ok) => can_redo]_vars

\* C18's case: an edit_region was rejected while regions, a pending marker and
\* snapshots were there to be disturbed.
C18_Witness ==
    /\ log.op = "edit_region" /\ ~log.ok
    /\ regions # <<>> /\ pending_marker_a # None /\ Len(history) >= 2

\* C19: merge_overlapping_regions() is idempotent on the region list: for
\* every reachable list, a second call leaves what the first call left; and a
\* call made right after another one leaves the list as it found it.
C19_MergeIdempotent ==
    /\ [](MergeResult(MergeResult(regions)) = MergeResult(regions))
    /\ [][(/\ log.op = "merge_overlapping_regions"
           /\ log'.op = "merge_overlapping_regions"
           /\ merge_overlapping_regions) => regions' = regions]_vars

\* C19's case: merge was called twice in a row on three chained regions, the
\* first call joining them into one and the second finding nothing to do.
C19_Witness ==
    /\ log.op = "merge_overlapping_regions" /\ ~log.ok
    /\ Len(regions) = 1
    /\ history_index = Len(history) - 1
    /\ Len(history[Len(history)]) = 3
    /\ \A i \in 1 .. 2 :
          history[Len(history)][i].end_ms < history[Len(history)][3].end_ms


\* The instants (whole milliseconds of the video) that a region list covers.
Instants(regs) ==
    {t \in 0 .. video_duration_ms :
        \E i \in 1 .. Len(regs) : regs[i].start_ms <= t /\ t <= regs[i].end_ms}

\* The regions of a list that lie inside a merged region: its group.
Group(regs, m) ==
    {i \in 1 .. Len(regs) : m.start_ms <= regs[i].start_ms /\ regs[i].end_ms <= m.end_ms}

\* The earliest-starting region of a group; among equal starts, the one the
\* list holds first.
Earliest(regs, group) ==
    CHOOSE i \in group :
        \A j \in group : \/ regs[i].start_ms < regs[j].start_ms
                         \/ regs[i].start_ms = regs[j].start_ms /\ i <= j

has_overlapping_regions(regs) ==
    \E i \in 1 .. Len(regs) : \E j \in i + 1 .. Len(regs) : overlaps(regs[i], regs[j])

\* C20: a call of merge_overlapping_regions on a list of two or more regions
\* leaves a list that is sorted by start, in which each region ends strictly
\* before the next one starts (so has_overlapping_regions is false), that covers
\* exactly the instants the list covered before the call, and in which each
\* region carries the colour of the earliest-starting region of its group.
C20_MergeResult ==
    [][(log'.op = "merge_overlapping_regions" /\ log'.ok) =>
        /\ Len(regions) >= 2
        /\ \A i \in 1 .. Len(regions') - 1 :
              /\ regions'[i].start_ms <= regions'[i + 1].start_ms
              /\ regions'[i].end_ms < regions'[i + 1].start_ms
        /\ ~has_overlapping_regions(regions')
        /\ Instants(regions') = Instants(regions)
        /\ \A i \in 1 .. Len(regions') :
              LET group == Group(regions, regions'[i])
              IN  /\ group # {}
                  /\ regions'[i].color = regions[Earliest(regions, group)].color
                  /\ regions'[i].start_ms = regions[Earliest(regions, group)].start_ms]_vars

\* C20 witness: a merge has just turned three regions into two; one of the three
\* came later in the list than a region of another colour that ends after it.
C20_Witness ==
    /\ log.op = "merge_overlapping_regions" /\ log.ok
    /\ Len(regions) = 2
    /\ LET before == history[Len(history)]
       IN  /\ history_index = Len(history) - 1
           /\ Len(before) = 3
           /\ \E i \in 1 .. 3 : \E j \in 1 .. 3 :
                 /\ i < j
                 /\ before[i].start_ms <= before[j].start_ms
                 /\ before[j].end_ms < before[i].end_ms
                 /\ before[i].color # before[j].color


\* Every segment of a list ends strictly after it starts.
AllPositive(segs) == \A i \in 1 .. Len(segs) : Ms(segs[i][1]) < Ms(segs[i][2])

\* C21: in every reachable state and in either mode, every segment that
\* get_final_segments returns has its end strictly greater than its start.
C21_SegmentsPositive ==
    /\ \A keep_mode \in BOOLEAN :
          AllPositive(GetFinalSegments(regions, video_duration_ms, keep_mode))
    /\ log.op = "get_final_segments" => AllPositive(log.segs)

\* C21 witness: cut mode was asked for while the first region starts at 0, where
\* the cursor equals the region's start, and a segment was returned after it.
C21_Witness ==
    /\ log.op = "get_final_segments" /\ ~log.keep
    /\ regions # <<>>
    /\ regions[1].start_ms = 0
    /\ log.segs # <<>>
    /\ log.segs = GetFinalSegments(regions, video_duration_ms, FALSE)


\* The length of the i-th segment of a list, in milliseconds.
LengthOf(segments, i) == Ms(segments[i][2]) - Ms(segments[i][1])

\* The lengths of the first n segments of a list, added up from the last one.
RECURSIVE LengthsUpTo(_, _)
LengthsUpTo(segments, n) ==
    IF n = 0 THEN 0 ELSE LengthsUpTo(segments, n - 1) + LengthOf(segments, n)

\* C22: calculate_total_duration_with_separators returns the sum of
\* (end - start) over the segments plus (segment count - 1) times the
\* separator duration: nothing is added for a single segment, and the result
\* for an empty list is 0.
C22_TotalWithSeparators ==
    built.op = "calculate_total_duration_with_separators" =>
        LET n == Len(built.segments)
        IN  /\ n = 0 => built.total = 0
            /\ n = 1 => built.total = LengthOf(built.segments, 1)
            /\ n >= 1 => built.total = LengthsUpTo(built.segments, n)
                                         + (n - 1) * built.separator_duration

\* C22 witness: the function was called on three segments not all of the same
\* length, and two separator durations are part of its result.
C22_Witness ==
    /\ built.op = "calculate_total_duration_with_separators"
    /\ Len(built.segments) = 3
    /\ LengthOf(built.segments, 1) # LengthOf(built.segments, 3)
    /\ built.separator_duration > 0
    /\ built.total = LengthsUpTo(built.segments, 3) + 2 * built.separator_duration


\* C23: every progress value the worker emits while reading output equals
\* min(100, floor(100 * current_ms / total_duration_ms)), lies in 0..100, and
\* is emitted only when total_duration_ms > 0 and current_ms > 0.
C23_ProgressIsFloor ==
    [][\A w \in Workers :
          (/\ Len(events') = Len(events) + 1
           /\ Last(events').sig = "progress"
           /\ Last(events').at = 120
           /\ Last(events').w = w)
          => LET current_ms == sessions'[w].current_time_ms
                 total_duration_ms == sessions[w].total_duration_ms
             IN  /\ total_duration_ms > 0
                 /\ current_ms > 0
                 /\ Last(events').val \in 0 .. 100
                 /\ Last(events').val
                        = Min(100, (100 * current_ms) \div total_duration_ms)]_vars


\* The value is a clock text HH:MM:SS.ffffff made of numbers.
IsClockText(value) ==
    /\ value.shape = "clock"
    /\ Len(value.parts) = 3
    /\ Len(value.parts[1]) = 1 /\ value.parts[1][1].num
    /\ Len(value.parts[2]) = 1 /\ value.parts[2][1].num
    /\ Len(value.parts[3]) = 2 /\ value.parts[3][1].num /\ value.parts[3][2].num

\* C24: a line out_time_us=U gives current_ms = U div 1000; a line
\* out_time=HH:MM:SS.ffffff gives ((HH*60+MM)*60+SS)*1000 + ffffff div 1000; the
\* two lines the encoder prints for one instant give the same current_ms; and
\* no value, parsable or not, makes the handling of a line raise.
C24_SamePositionFromBothKeys ==
    /\ parsed.error = "none"
    /\ (parsed.op = "run" /\ parsed.line.has_eq) =>
          LET value == parsed.line.value
          IN  /\ (parsed.line.key = "out_time_us" /\ value.shape = "digits")
                    => parsed.after = value.n[1] * 1000 + value.n[2] \div 1000
              /\ (parsed.line.key = "out_time" /\ IsClockText(value))
                    => LET HH == value.parts[1][1].n
                           MM == value.parts[2][1].n
                           SS == value.parts[3][1].n
                           ffffff == value.parts[3][2].n
                       IN  parsed.after = ((HH * 60 + MM) * 60 + SS) * 1000
                                            + ffffff \div 1000
              /\ \A t \in InstantsUs :
                    (parsed.line.key = "out_time" /\ value = FormatClock(t))
                        => parsed.after = ExtractTime(KeyValue("out_time_us", FormatUs(t)),
                                                      parsed.before).n

\* C24 witness: the loop has read the out_time line of the instant
\* 01:02:03.004005 and holds 3,723,004 ms, what out_time_us=3723004005 gives.
C24_Witness ==
    /\ parsed.op = "run"
    /\ parsed.line = KeyValue("out_time", FormatClock(Micro(3723, 4005)))
    /\ parsed.line.value.parts[1][1].n = 1
    /\ parsed.after = 3723004
    /\ parsed.error = "none"


\* The failure condition of a probe, by what it meets, in the order the
\* conditions are looked at: the file is missing, the probe process fails, its
\* output is malformed, the file has no video stream; or none of them.
Condition(file) ==
    IF ~file.exists THEN "file_missing"
    ELSE IF file.run # "ok" THEN "process_failure"
    ELSE IF ~file.json THEN "malformed_output"
    ELSE IF \A i \in 1 .. Len(file.streams) : file.streams[i] # "video"
    THEN "missing_stream"
    ELSE "none"

\* C25: each of the four failure conditions aborts the load with an error, and
\* probes that fail under two different conditions end with errors of two
\* different kinds.
C25_FourErrorKinds ==
    (probed.op = "probe" /\ Condition(probed.file) # "none") =>
        /\ probed.result.raised
        /\ \A other \in ProbeInputs :
              (Condition(other) \notin {"none", Condition(probed.file)})
                  => probe(other).class # probed.result.class


\* C26: in every reachable state every region of the current list ends at or
\* before video_duration_ms; a region created against an earlier duration
\* does not become current again once the duration has been set anew.
C26_RegionsWithinDuration ==
    \A i \in 1 .. Len(regions) : regions[i].end_ms <= video_duration_ms


\* C27: a redo() called directly after an undo() that returned true returns
\* true and leaves the region list that was current just before the undo().
C27_RedoInvertsUndo ==
    [][(undone # None /\ log'.op = "redo") =>
          (log'.ok /\ regions' = ValueOf(undone))]_vars


\* The segments of a list are in ascending order of start, and no two of them
\* overlap: each one ends at or before the start of every later one.
AscendingDisjoint(segs) ==
    \A i \in 1 .. Len(segs) : \A j \in i + 1 .. Len(segs) :
        /\ Ms(segs[i][1]) <= Ms(segs[j][1])
        /\ Ms(segs[i][2]) <= Ms(segs[j][1])

\* C28: in every reachable state and in either mode, the segments that
\* get_final_segments returns, which the export hands to the command
\* builder, are in ascending order and pairwise non-overlapping.
C28_SegmentsAscendingDisjoint ==
    /\ \A keep_mode \in BOOLEAN :
          AscendingDisjoint(GetFinalSegments(regions, video_duration_ms, keep_mode))
    /\ log.op = "get_final_segments" => AscendingDisjoint(log.segs)


\* C29: a snapshot taken when the history already holds 50 of them, the cursor
\* on the last, leaves the 49 most recent of these in their order followed by
\* the new one, with the cursor on it: the earliest is dropped.  undo() never
\* changes the history; one that returns true leaves the list of a retained
\* snapshot, and with the cursor on the oldest retained snapshot undo()
\* returns false and changes nothing, so nothing older comes back.
C29_OldestDropped ==
    /\ [](Len(history) <= 50)
    /\ [][/\ (log'.snap /\ Len(history) = 50 /\ history_index = 49)
               => /\ Len(history') = 50
                  /\ history_index' = 49
                  /\ history'[50] = regions
                  /\ \A i \in 1 .. 49 : history'[i] = history[i + 1]
          /\ log'.op = "undo"
               => /\ history' = history
                  /\ log'.ok => /\ history_index' = history_index - 1
                                /\ history_index' >= 0
                                /\ regions' = history[history_index' + 1]
                  /\ history_index = 0 => (~log'.ok /\ regions' = regions
                                             /\ history_index' = 0)]_vars

\* C29 witness: more than 50 snapshots have been taken (26 regions created,
\* 25 of them removed again, or more), the history holds 50 that are not all
\* alike, and undo() has just been refused with the cursor on the oldest.
C29_Witness ==
    /\ color_index >= 26
    /\ Len(history) = 50
    /\ history_index = 0
    /\ history[1] # history[2]
    /\ log.op = "undo" /\ ~log.ok


\* C30: at every emit of regions_changed, marker_a_set or marker_a_cleared the
\* object is already what the call leaves: the region list sorted and final,
\* the pending marker at its value after the operation, the snapshot of the
\* operation in the history and the cursor on it.
C30_NotifiedAfterCommit ==
    /\ Len(log.seen) = Len(log.emitted)
    /\ \A i \in 1 .. Len(log.seen) :
          /\ log.seen[i].signal = log.emitted[i]
          /\ log.seen[i].signal \in {"regions_changed", "marker_a_set", "marker_a_cleared"}
          /\ log.seen[i].object.regions = regions
          /\ SortedByStart(log.seen[i].object.regions)
          /\ log.seen[i].object.pending_marker_a = pending_marker_a
          /\ log.seen[i].object.history = history
          /\ log.seen[i].object.history_index = history_index
          /\ log.seen[i].object.color_index = color_index
          /\ log.seen[i].object.video_duration_ms = video_duration_ms
          /\ log.snap => log.seen[i].object.history_index = Len(history) - 1

\* C30 witness: set_marker_b has created a region that the sort moved in front
\* of an older one, and its two signals were emitted.
C30_Witness ==
    /\ log.op = "set_marker_b" /\ log.ok /\ log.snap
    /\ Len(log.seen) = 2
    /\ Len(regions) >= 2
    /\ regions[1].color > regions[2].color
    /\ regions[1].start_ms < regions[2].start_ms
    /\ pending_marker_a = None


\* C31: the k-th region created by set_marker_b since the last clear_all
\* receives palette colour k mod 6.  Step by step: a successful set_marker_b
\* adds one region whose colour is the counter modulo 6 and raises the counter
\* by exactly one; clear_all (also when set_video_duration calls it) sets the
\* counter to zero; remove_region, edit_region, merge_overlapping_regions,
\* undo, redo and every rejected call leave the counter as it was.
Occurrences(regs, region) == Cardinality({i \in DOMAIN regs : regs[i] = region})
Created(region) == Occurrences(regions', region) = Occurrences(regions, region) + 1
C31_ColourFollowsCounter ==
    [][IF log'.op = "set_marker_b" /\ log'.ok
       THEN /\ color_index' = color_index + 1
            /\ \E s, e \in 0 .. video_duration_ms :
                    Created(CutRegion(s, e, color_index % 6))
       ELSE IF log'.op \in {"clear_all", "set_video_duration"}
       THEN color_index' = 0
       ELSE color_index' = color_index]_vars

\* C31: the seventh region created since the last clear_all is in the list and
\* has the first colour of the palette again, after a call that was none of
\* set_marker_b and clear_all.
C31_Witness ==
    /\ color_index = 7
    /\ \E i \in DOMAIN regions : regions[i].color = 0
    /\ log.op \in {"remove_region", "edit_region", "merge_overlapping_regions",
                   "undo", "redo"}


\* C32: only the worker thread acts on the child encoder process: the main
\* thread is never inside _terminate_process (terminate, wait, kill on the
\* process handle), and so never there while the worker's run() is using the
\* same handle (reading its output, waiting for it, or terminating it).
C32_OnlyWorkerUsesProcess == main.pc # "terminating"


\* C33: every session for which encode() returned true eventually emits its
\* terminal notification, given that the child process ends; no session has
\* two of them (queued or handled); the notification is eventually handled,
\* and handling it leaves is_encoding false; is_encoding is already false when
\* encoding_finished reaches the listeners.
TerminalsQueued(w) ==
    Cardinality({i \in DOMAIN events :
                    events[i].sig = "finished_encoding" /\ events[i].w = w})
TerminalsHandled(w) == IF sessions[w].delivered THEN 1 ELSE 0
HandlesTerminal ==
    /\ main.pc = "idle"
    /\ events # <<>>
    /\ Head(events).sig = "finished_encoding"
    /\ events' = Tail(events)
C33_OneTerminalPerSession ==
    /\ \A w \in Workers :
            (sessions[w].started /\ TerminalsQueued(w) + TerminalsHandled(w) = 0)
                ~> (TerminalsQueued(w) = 1)
    /\ \A w \in Workers : (TerminalsQueued(w) = 1) ~> sessions[w].delivered
    /\ [](\A w \in Workers : TerminalsQueued(w) + TerminalsHandled(w) <= 1)
    /\ [](\A w \in Workers : ~sessions[w].started =>
                                TerminalsQueued(w) + TerminalsHandled(w) = 0)
    /\ [][HandlesTerminal => ~is_encoding']_vars
    /\ [](\A w \in Workers : ~sessions[w].told_encoding)

\* C33: the terminal notification of a session has been handled, the
\* worker's thread-finished signal is still queued, and is_encoding is false.
C33_Witness ==
    \E w \in Workers :
        /\ sessions[w].started /\ sessions[w].delivered
        /\ sessions[w].pc = "finished"
        /\ TerminalsQueued(w) = 0
        /\ ~is_encoding
        /\ \E i \in DOMAIN events : events[i].sig = "finished" /\ events[i].w = w


C35_WorkerReferencedWhileEncoding ==
    is_encoding => worker # 0 /\ worker = next_id


\* The time the elements concatenated by a command last, in milliseconds, read
\* off the command: with a filter graph, the spans of the trims and the
\* durations of the colour screens behind the video pads fed to concat, in the
\* order they are fed; without one, the whole milliseconds of the value of -t.
Producer(graph, pad) ==
    CHOOSE k \in 1 .. Len(graph) : \E o \in DOMAIN graph[k].outs : graph[k].outs[o] = pad
PadMs(graph, pad) ==
    LET part == graph[Producer(graph, pad)]
    IN  IF part.filter = "trim" THEN Ms(part.seg[2]) - Ms(part.seg[1]) ELSE part.dur
RECURSIVE PadsMs(_, _)
PadsMs(graph, pads) ==
    IF pads = <<>> THEN 0
    ELSE (IF Head(pads)[1] \in {"v", "sepv"} THEN PadMs(graph, Head(pads)) ELSE 0)
         + PadsMs(graph, Tail(pads))
ConcatenatedMs(args) ==
    IF GraphPositions(args) # {}
    THEN LET graph == args[CHOOSE i \in GraphPositions(args) : TRUE].graph
             concat == graph[CHOOSE k \in ConcatParts(graph) : TRUE]
         IN  PadsMs(graph, concat.inputs)
    ELSE LET t == CHOOSE i \in 1 .. Len(args) : args[i].text = "-t"
         IN  IntOfFloat(args[t + 1].value)

\* C36: the total duration encode() hands to the worker equals the time the
\* elements concatenated by the command it built last: the segments, and the
\* separators exactly when the command contains them.
C36_TotalMatchesCommand ==
    (built.op = "encode" /\ enc_log.ok /\ built.args # <<>>)
    => sessions[worker].total_duration_ms = ConcatenatedMs(built.args)


\* C37: in every command with a filter graph, concat is fed n * (1 + a) pads,
\* where n and a are the count and the audio flag it declares (v = 1); a = 1
\* exactly when the graph has audio trims, and then it has one per video trim
\* and one silence per colour screen; the pads fed are, element by element, the
\* video pad of a trim or colour screen followed (when a = 1) by the audio pad
\* of the same element, every one produced by exactly one part of the graph and
\* every produced pad fed once; [outa] is produced and mapped exactly when
\* a = 1.
Producers(graph, pad) ==
    {k \in 1 .. Len(graph) : \E o \in DOMAIN graph[k].outs : graph[k].outs[o] = pad}
PartsOf(graph, filter) == {k \in 1 .. Len(graph) : graph[k].filter = filter}
AudioPadOf(pad) == <<IF pad[1] = "v" THEN "a" ELSE "sepa", pad[2]>>
MapsAudio(args) ==
    \E i \in 1 .. Len(args) - 1 : args[i].text = "-map" /\ args[i + 1].text = "[outa]"
C37_ConcatMatchesPads ==
    \A g \in GraphPositions(built.args) :
        LET graph == built.args[g].graph
        IN  \A c \in ConcatParts(graph) :
                LET n == graph[c].n
                    a == graph[c].a
                    inputs == graph[c].inputs
                    width == 1 + a
                IN  /\ graph[c].v = 1 /\ a \in {0, 1}
                    /\ Len(inputs) = n * width
                    /\ a = 1 <=> PartsOf(graph, "atrim") # {}
                    /\ a = 1 => /\ Cardinality(PartsOf(graph, "atrim"))
                                     = Cardinality(PartsOf(graph, "trim"))
                                /\ Cardinality(PartsOf(graph, "aevalsrc"))
                                     = Cardinality(PartsOf(graph, "color"))
                    /\ a = 0 => PartsOf(graph, "aevalsrc") = {}
                    /\ \A e \in 1 .. n :
                          LET video == inputs[(e - 1) * width + 1]
                          IN  /\ video[1] \in {"v", "sepv"}
                              /\ a = 1 => inputs[(e - 1) * width + 2] = AudioPadOf(video)
                    /\ \A i \in DOMAIN inputs :
                          /\ Cardinality(Producers(graph, inputs[i])) = 1
                          /\ \A j \in DOMAIN inputs : inputs[j] = inputs[i] => j = i
                    /\ \A k \in 1 .. Len(graph) : k # c =>
                          \A o \in DOMAIN graph[k].outs :
                              \E i \in DOMAIN inputs : inputs[i] = graph[k].outs[o]
                    /\ a = 1 <=> (\E o \in DOMAIN graph[c].outs : graph[c].outs[o][1] = "outa")
                    /\ a = 1 <=> MapsAudio(built.args)

\* C37: a command built with separators and audio from three segments: concat
\* declares five elements with audio and is fed ten pads.
C37_Witness ==
    /\ built.op = "build_multi_segment_with_separators_command"
    /\ built.has_audio /\ Len(built.segments) = 3
    /\ \E g \in GraphPositions(built.args) :
          \E c \in ConcatParts(built.args[g].graph) :
              /\ built.args[g].graph[c].n = 5
              /\ built.args[g].graph[c].a = 1
              /\ Len(built.args[g].graph[c].inputs) = 10


\* C38: a command built with separators from N >= 2 segments concatenates
\* segment 0, separator 0, segment 1, ..., separator N-2, segment N-1: the
\* video pads fed to concat are, at the odd places, the trims of the segments
\* in their original order and, at the even places, the colour screens, 2N - 1
\* in all, so that no separator comes first or last.
VideoPads(pads) == SelectSeq(pads, LAMBDA pad : pad[1] \in {"v", "sepv"})
C38_SeparatorsBetweenSegments ==
    (/\ built.op \in {"build_multi_segment_with_separators_command", "encode"}
     /\ built.separators /\ ~built.raised /\ Len(built.segments) >= 2
     /\ built.args # <<>>)
    => \E g \in GraphPositions(built.args) :
          LET graph == built.args[g].graph
              N == Len(built.segments)
          IN  \E c \in ConcatParts(graph) :
                LET elements == VideoPads(graph[c].inputs)
                IN  /\ Len(elements) = 2 * N - 1
                    /\ \A i \in 1 .. N :
                          LET part == graph[Producer(graph, elements[2 * i - 1])]
                          IN  /\ part.filter = "trim"
                              /\ part.seg = built.segments[i]
                    /\ \A i \in 1 .. N - 1 :
                          LET part == graph[Producer(graph, elements[2 * i])]
                          IN  /\ part.filter = "color"
                              /\ part.dur \in SeparatorDurations

\* C38: encode() built a command with separators from three different
\* segments that are not in ascending order.
C38_Witness ==
    /\ built.op = "encode" /\ built.separators /\ built.args # <<>>
    /\ Len(built.segments) = 3
    /\ Ms(built.segments[1][1]) > Ms(built.segments[2][1])
    /\ Ms(built.segments[2][1]) > Ms(built.segments[3][1])


\* C39: a line of the encoder's output that is not empty and holds no "=" is
\* forwarded as a log line, and reading it emits no progress update.
C39_PlainLineIsLogOnly ==
    (parsed.op = "run" /\ ~parsed.line.has_eq /\ ~parsed.line.blank)
    => parsed.emitted = <<"log_message">>


\* C40: the encoder probe returns the first of h264_nvenc, h264_qsv, h264_amf
\* that is listed and whose trial encode ends with code 0, whatever happened
\* to the ones before it (unlisted, failed trial, timeout, exception), and
\* libx264 when there is none.
C40_FirstWorkingEncoder ==
    probed.op = "detect_available_encoder"
    => LET order == <<"h264_nvenc", "h264_qsv", "h264_amf">>
           machine == probed.file
           working == {i \in 1 .. 3 :
                          machine[i].listing = "listed" /\ machine[i].trial = "exit0"}
       IN  IF working = {}
           THEN probed.result[1] = "libx264"
           ELSE \E i \in working :
                    /\ \A j \in working : i <= j
                    /\ probed.result[1] = order[i]

\* C40: h264_nvenc is listed but its trial runs over the timeout, the listing
\* raises for h264_qsv, and h264_amf is listed and passes: h264_amf is returned.
C40_Witness ==
    /\ probed.op = "detect_available_encoder"
    /\ probed.file[1] = [listing |-> "listed", trial |-> "timeout"]
    /\ probed.file[2].listing = "raises"
    /\ probed.file[3] = [listing |-> "listed", trial |-> "exit0"]
    /\ probed.result = <<"h264_amf", "quality">>

=============================================================================
